---- MODULE Spec2Model ----
(***************************************************************************)
(* A model of the frame/render graph of Babylon.js:                        *)
(*   - FrameGraphGeometryRendererTask (record, depth compatibility, clear  *)
(*     attachment layouts) against the frame graph's texture table;        *)
(*   - the node render graph blocks (bloom post process, teleport in/out)  *)
(*     and the build traversal that turns them into an ordered task list.  *)
(* TypeScript arrays are 0-based; the sequences below are 1-based, so an   *)
(* attachment index i of the source is position i + 1 here.                *)
(***************************************************************************)
EXTENDS Integers, Sequences, FiniteSets, TLC

\* Longest list of texture descriptions given to the geometry renderer task.
MaxPlanes == 3

(***************************************************************************)
(* Geometry texture catalogue and clear kinds                              *)
(***************************************************************************)

\* TextureClearType: the index into clearColors.
ClearZero == 0
ClearOne == 1
ClearMaxViewZ == 2

\* clearColors[clearType], as the four components of the Color4 (1e8 kept symbolic).
clearColors ==
    [k \in {ClearZero, ClearOne, ClearMaxViewZ} |->
        IF k = ClearZero THEN <<0, 0, 0, 0>>
        ELSE IF k = ClearOne THEN <<1, 1, 1, 1>>
        ELSE <<100000000, 100000000, 100000000, 100000000>>]

\* MaterialHelperGeometryRendering.GeometryTextureDescriptions: one entry per
\* geometry plane, in catalogue order.
GeometryTextureDescriptions ==
    << [type |-> 5,  name |-> "ViewDepth",      clearType |-> ClearMaxViewZ, defineIndex |-> "PREPASS_DEPTH_INDEX"],
       [type |-> 10, name |-> "ScreenDepth",    clearType |-> ClearOne,      defineIndex |-> "PREPASS_SCREENSPACE_DEPTH_INDEX"],
       [type |-> 6,  name |-> "ViewNormal",     clearType |-> ClearZero,     defineIndex |-> "PREPASS_NORMAL_INDEX"],
       [type |-> 8,  name |-> "WorldNormal",    clearType |-> ClearZero,     defineIndex |-> "PREPASS_WORLD_NORMAL_INDEX"],
       [type |-> 9,  name |-> "LocalPosition",  clearType |-> ClearZero,     defineIndex |-> "PREPASS_LOCAL_POSITION_INDEX"],
       [type |-> 1,  name |-> "WorldPosition",  clearType |-> ClearZero,     defineIndex |-> "PREPASS_POSITION_INDEX"],
       [type |-> 12, name |-> "Albedo",         clearType |-> ClearZero,     defineIndex |-> "PREPASS_ALBEDO_INDEX"],
       [type |-> 3,  name |-> "Reflectivity",   clearType |-> ClearZero,     defineIndex |-> "PREPASS_REFLECTIVITY_INDEX"],
       [type |-> 2,  name |-> "Velocity",       clearType |-> ClearZero,     defineIndex |-> "PREPASS_VELOCITY_INDEX"],
       [type |-> 11, name |-> "LinearVelocity", clearType |-> ClearZero,     defineIndex |-> "PREPASS_VELOCITY_LINEAR_INDEX"] >>

\* The catalogue types the layout specification draws descriptions from:
\* one plane of each clear kind, and a second plane of the zero kind.
LayoutTypes == {5, 10, 6, 12}

\* The types the record specification draws descriptions from: one catalogue
\* plane and one type (99) that is in no catalogue entry.
RecordTypes == {5, 99}

\* Array.prototype.findIndex over the catalogue: the first position whose type
\* matches, 0 when there is none (the source's -1).
FindIndex(type) ==
    IF \E i \in DOMAIN GeometryTextureDescriptions : GeometryTextureDescriptions[i].type = type
    THEN CHOOSE i \in DOMAIN GeometryTextureDescriptions :
            /\ GeometryTextureDescriptions[i].type = type
            /\ \A j \in 1..(i - 1) : GeometryTextureDescriptions[j].type # type
    ELSE 0

\* All sequences over S of length lo..hi.
SeqsOf(S, lo, hi) == UNION {[1..n -> S] : n \in lo..hi}

\* The values of a sequence.
Range(s) == {s[i] : i \in DOMAIN s}

\* A texture description of the task: only its geometry type decides anything here.
Description(type) == [type |-> type]

(***************************************************************************)
(* State                                                                   *)
(***************************************************************************)

VARIABLES
    \* FrameGraphGeometryRendererTask: public fields
    textureDescriptions,    \* IFrameGraphGeometryRendererTextureDescription[]
    objectList,             \* FrameGraphObjectListId, Undefined when not set
    depthTexture,           \* FrameGraphTextureId, Undefined when not set
    samples,
    size,                   \* [width, height]
    sizeIsPercentage,
    \* FrameGraphGeometryRendererTask: private fields
    clearAttachmentsLayout, \* Map<TextureClearType, number[]>, in insertion order
    allAttachmentsLayout,   \* number[]
    rttSize,                \* _rtt._size
    \* FrameGraph
    fgTextures,             \* the texture table: entry of handle h at position h - 1
    fgPasses,               \* the render passes, in registration order
    screen,                 \* the size of the swap chain
    \* what the last recordFrameGraph call did
    thrown,                 \* the Error it threw, NoError when it returned
    descLookups,            \* the handles it passed to getTextureDescription
    lastOp,                 \* the operation that made the last step
    \* NodeRenderGraph: the blocks
    connected,              \* input point -> the block whose output it is connected to, Null when none
    value,                  \* block -> the value of its output point
    entryPoint,             \* teleport out block -> its _entryPoint, Null when none
    endpoints,              \* teleport in block -> its attached teleport out blocks, in attach order
    bloomTask,              \* the bloom block's task: sourceTexture, destinationTexture
    fgTasks,                \* the tasks of the node graph's frame graph, in addTask order
    \* what the last graph build did
    buildLog,               \* the build calls and build steps, in order
    buildError,             \* the error the build ended with, NoBuildError when none
    \* NodeRenderGraph: serialization
    uniqueId,               \* block -> its uniqueId
    document,               \* the serialized blocks, in array order; <<>> when nothing is serialized
    tempEntryPointUniqueId, \* teleport out block -> its _tempEntryPointUniqueId
    firstPassEntryPoint,    \* teleport out block -> its _entryPoint when the last parse had rebuilt every block
    \* NodeRenderGraph: clones
    cloneEntryPoint,        \* teleport out block -> the _entryPoint of its clone, NoClone while it has none
    \* The geometry renderer task's render target and configuration
    configuration,          \* the geometry rendering configuration of _rtt.renderPassId, Undefined once deleted
    rttDisposed,            \* _rtt.dispose() was called
    rttReady,               \* what _rtt.isReadyForRendering() returns
    \* FrameGraph: the frames
    notReady,               \* the other tasks whose isReadyFrameGraph() returns false
    frameLog,               \* what the last frame did with each pass, in order
    \* FrameGraphGeometryRendererTask: the fields its execute function reads
    depthTest,
    depthWrite,
    contextCalls,           \* the calls the execute function made on the context in the last frame, in order
    \* WebGPUDrawContext
    dirtyFlag,              \* _isDirty
    materialContextUpdateId,
    buffers,                \* name -> the buffer bound under it; Undefined once disposed
    vertexPullingEnabled,
    useInstancing,
    indirectDrawBuffer,     \* the GPUBuffer, Undefined when none
    indirectDrawData,       \* the Uint32Array(5), Undefined when none
    currentInstanceCount,
    \* WebGPUBufferManager and the pipeline context's uniform buffer
    rawBuffers,             \* the raw buffers created, in order: how often each was released, the data last written
    uniformUpdates,         \* the uniforms the last setVertexPulling updated
    \* what happened to the draw context since the last resetIsDirty
    lastResetId,            \* the argument of the last resetIsDirty, Undefined when there was none
    sinceReset,             \* the events since then
    indirectCall,           \* the last operation when it was setIndirectData: its instance count, whether it called setRawData
    \* Inspector watcher service
    settings,               \* the WatcherSettings in the settings store
    pollingHandle,          \* Undefined when null
    refreshObservable,      \* the observers of the observable, Undefined when null
    intercepted,            \* the number of properties watched by interception
    storeObserver,          \* the service's observer is registered on settingsStore.onChanged
    timers,                 \* the interval timers created, in order: live or cleared, the interval
    serviceDisposed         \* dispose() was called

taskFields == <<textureDescriptions, objectList, depthTexture, samples, size, sizeIsPercentage>>
taskPrivate == <<clearAttachmentsLayout, allAttachmentsLayout, rttSize>>
frameGraph == <<fgTextures, fgPasses, screen>>
callLog == <<thrown, descLookups>>
taskVars == <<taskFields, taskPrivate, frameGraph, callLog, lastOp>>

serialVars == <<uniqueId, document, tempEntryPointUniqueId, firstPassEntryPoint>>

cloneVars == <<cloneEntryPoint>>

graphVars == <<connected, value, entryPoint, endpoints, bloomTask, fgTasks, buildLog, buildError, serialVars, cloneVars>>

executeVars == <<depthTest, depthWrite, contextCalls>>

runtimeVars == <<configuration, rttDisposed, rttReady, notReady, frameLog, executeVars>>

drawVars == <<dirtyFlag, materialContextUpdateId, buffers, vertexPullingEnabled, useInstancing, indirectDrawBuffer,
              indirectDrawData, currentInstanceCount, rawBuffers, uniformUpdates, lastResetId, sinceReset, indirectCall>>

watcherVars == <<settings, pollingHandle, refreshObservable, intercepted, storeObserver, timers, serviceDisposed>>

vars == <<taskVars, graphVars, runtimeVars, drawVars, watcherVars>>

\* An optional value that is not set; a set value v is <<v>>.
Undefined == <<>>

\* FrameGraphGeometryRendererTask.name
TaskName == "geometryRenderer"

\* new Error(`FrameGraphGeometryRendererTask ${this.name}: <text> <args>`): the
\* task name and the values interpolated into the message after the text.
Error(text, args) == [task |-> TaskName, text |-> text, args |-> args]

NoError == [task |-> "", text |-> "", args |-> <<>>]

(***************************************************************************)
(* NodeRenderGraph: the blocks of the modelled graph                       *)
(***************************************************************************)

\* No block, no point, no id.
Null == "null"

\* A value that is not resolved (undefined in the source).
NoValue == "none"

\* Two input blocks (a texture, the back buffer), a teleport source with two
\* receivers, the bloom block, and the graph's output block.
InputBlocks == {"In1", "In2"}
TeleportIns == {"TIn"}
TeleportOuts == {"TOutA", "TOutB"}
Blocks == InputBlocks \cup TeleportIns \cup TeleportOuts \cup {"Bloom", "Out"}

\* The blocks that have an output point; each has exactly one, named "output".
OutputBlocks == InputBlocks \cup TeleportOuts \cup {"Bloom"}

\* A block's input points, in registration order.
InputsOf(b) ==
    IF b = "Bloom" THEN <<"source", "destination">>
    ELSE IF b \in TeleportIns THEN <<"input">>
    ELSE IF b = "Out" THEN <<"texture">>
    ELSE <<>>

InputPoints == UNION {{<<b, InputsOf(b)[i]>> : i \in DOMAIN InputsOf(b)} : b \in Blocks}

\* Every input registered as optional.
IsOptionalAlways(p) == TRUE

\* registerInput's isOptional
IsOptional(p) == p = <<"Bloom", "destination">>

\* The value an input block resolves for its output.
InputBlockValue(b) == IF b = "In1" THEN "texture:In1" ELSE "backbuffer:In2"

\* FrameGraphBloomTask.outputTextureReference
BloomOutputTextureReference == "bloom.output"

NoBuildError == [block |-> Null, input |-> Null]

\* A teleport out block that was not cloned.
NoClone == "no clone"

\* The order the blocks of the graph are constructed in; a block's uniqueId is
\* the next value of the id generator.
CreationOrder == <<"In1", "In2", "TIn", "TOutA", "TOutB", "Bloom", "Out">>

\* The serialized form of "no entry point" (the empty string of serialize()),
\* also standing for the null of a field never written.
NoUniqueId == 0

\* The node graph after construction and wiring: nothing attached, nothing
\* built, nothing serialized.
GraphInitWith(wiring) ==
    /\ connected = wiring
    /\ value = [b \in OutputBlocks |-> NoValue]
    /\ entryPoint = [b \in TeleportOuts |-> Null]
    /\ endpoints = [b \in TeleportIns |-> <<>>]
    /\ bloomTask = [sourceTexture |-> NoValue, destinationTexture |-> NoValue]
    /\ fgTasks = <<>>
    /\ buildLog = <<>>
    /\ buildError = NoBuildError
    /\ uniqueId = [b \in Blocks |-> CHOOSE i \in DOMAIN CreationOrder : CreationOrder[i] = b]
    /\ document = <<>>
    /\ tempEntryPointUniqueId = [r \in TeleportOuts |-> NoUniqueId]
    /\ firstPassEntryPoint = [r \in TeleportOuts |-> Null]
    /\ cloneEntryPoint = [r \in TeleportOuts |-> NoClone]

\* The node graph after construction: nothing connected.
GraphInit == GraphInitWith([p \in InputPoints |-> Null])

(***************************************************************************)
(* FrameGraph: the texture handle table                                    *)
(***************************************************************************)

\* frameGraphTypes: the handle of the swap chain's depth/stencil buffer.
backbufferDepthStencilTextureHandle == 1

\* Math.round of a * b / 100 for naturals a, b.
RoundPercent(a, b) == (2 * a * b + 100) \div 200

\* The pixel size of a texture created with the given size on the given screen.
ResolveSize(sz, isPercentage, scr) ==
    IF isPercentage
    THEN [width |-> RoundPercent(scr.width, sz.width), height |-> RoundPercent(scr.height, sz.height)]
    ELSE sz

\* A texture table entry: what it was created with, and its current pixel size.
TextureEntry(name, creationOptions, scr) ==
    [name |-> name,
     creationOptions |-> creationOptions,
     dims |-> ResolveSize(creationOptions.size, creationOptions.sizeIsPercentage, scr)]

\* The first handle after the swap chain's own.
FirstHandle == backbufferDepthStencilTextureHandle + 1

HandlesOf(textures) == {FirstHandle + i - 1 : i \in DOMAIN textures}

EntryOf(textures, handle) == textures[handle - FirstHandle + 1]

\* FrameGraph.createRenderTargetTexture: appends an entry; its handle is the next index.
createRenderTargetTexture(textures, name, creationOptions, scr) ==
    [textures |-> Append(textures, TextureEntry(name, creationOptions, scr)),
     handle |-> FirstHandle + Len(textures)]

\* FrameGraph.getTextureDescription: the creation options with the size in pixels.
getTextureDescription(textures, handle) ==
    [size |-> EntryOf(textures, handle).dims,
     sizeIsPercentage |-> FALSE,
     options |-> EntryOf(textures, handle).creationOptions.options]

\* FrameGraph.getTextureHandle of a texture id that is a handle.
getTextureHandle(textureId) == textureId[1]

\* The two depth textures the frame graph holds before any task is recorded:
\* handle 2 with one sample, handle 3 with four.
ImportedTextures(scr) ==
    << TextureEntry("depth1", [size |-> [width |-> 100, height |-> 100], sizeIsPercentage |-> TRUE,
                               options |-> [textureCount |-> 1, samples |-> 1, labels |-> <<"depth1">>]], scr),
       TextureEntry("depth4", [size |-> [width |-> 100, height |-> 100], sizeIsPercentage |-> TRUE,
                               options |-> [textureCount |-> 1, samples |-> 4, labels |-> <<"depth4">>]], scr) >>

(***************************************************************************)
(* FrameGraphGeometryRendererTask                                          *)
(***************************************************************************)

\* The positions of the texture descriptions whose type is not in the catalogue.
UnknownPositions == {i \in DOMAIN textureDescriptions : FindIndex(textureDescriptions[i].type) = 0}

\* The options object _createMultiRenderTargetTexture passes to the frame graph.
CreationOptionsNotPercentage ==
    [size |-> size,
     sizeIsPercentage |-> FALSE,
     options |-> [textureCount |-> Len(textureDescriptions),
                  samples |-> samples,
                  labels |-> [i \in DOMAIN textureDescriptions |->
                                 GeometryTextureDescriptions[FindIndex(textureDescriptions[i].type)].name]]]

CreationOptions ==
    [size |-> size,
     sizeIsPercentage |-> sizeIsPercentage,
     options |-> [textureCount |-> Len(textureDescriptions),
                  samples |-> samples,
                  labels |-> [i \in DOMAIN textureDescriptions |->
                                 GeometryTextureDescriptions[FindIndex(textureDescriptions[i].type)].name]]]

\* _createMultiRenderTargetTexture creating the texture before it looks at the
\* types of the descriptions.
CreateMultiRenderTargetTextureThenCheck(textures) ==
    LET unlabelled == [size |-> size, sizeIsPercentage |-> sizeIsPercentage,
                       options |-> [textureCount |-> Len(textureDescriptions), samples |-> samples, labels |-> <<>>]]
        made == createRenderTargetTexture(textures, TaskName,
                    IF UnknownPositions # {} THEN unlabelled ELSE CreationOptions, screen)
    IN IF UnknownPositions # {}
       THEN [thrown |-> Error("unknown texture type",
                              <<textureDescriptions[CHOOSE i \in UnknownPositions : \A j \in UnknownPositions : i <= j].type>>),
             textures |-> made.textures,
             handle |-> Undefined]
       ELSE [thrown |-> NoError, textures |-> made.textures, handle |-> <<made.handle>>]

\* _createMultiRenderTargetTexture: throws at the first description of unknown
\* type, otherwise creates the multi render target texture.
CreateMultiRenderTargetTexture(textures) ==
    IF UnknownPositions # {}
    THEN LET first == CHOOSE i \in UnknownPositions : \A j \in UnknownPositions : i <= j
         IN [thrown |-> Error("unknown texture type", <<textureDescriptions[first].type>>),
             textures |-> textures,
             handle |-> Undefined]
    ELSE LET made == createRenderTargetTexture(textures, TaskName, CreationOptions, screen)
         IN [thrown |-> NoError, textures |-> made.textures, handle |-> <<made.handle>>]

\* _checkDepthTextureCompatibility with the two checks in the other order.
CheckDepthTextureCompatibilitySamplesFirst(textures) ==
    IF depthTexture = Undefined
    THEN [thrown |-> NoError, depthEnabled |-> FALSE, lookups |-> {}]
    ELSE LET depthTextureHandle == getTextureHandle(depthTexture)
         IN IF depthTextureHandle \in HandlesOf(textures)
               /\ getTextureDescription(textures, depthTextureHandle).options.samples # samples
            THEN [thrown |-> Error("the depth texture and the output texture must have the same number of samples", <<>>),
                  depthEnabled |-> FALSE,
                  lookups |-> {depthTextureHandle}]
            ELSE IF depthTextureHandle = backbufferDepthStencilTextureHandle
            THEN [thrown |-> Error("the depth/stencil back buffer is not allowed as a depth texture", <<>>),
                  depthEnabled |-> FALSE,
                  lookups |-> {depthTextureHandle}]
            ELSE [thrown |-> NoError, depthEnabled |-> TRUE, lookups |-> {depthTextureHandle}]

\* _checkDepthTextureCompatibility with the sample counts compared by === .
CheckDepthTextureCompatibilityEqual(textures) ==
    IF depthTexture = Undefined
    THEN [thrown |-> NoError, depthEnabled |-> FALSE, lookups |-> {}]
    ELSE LET depthTextureHandle == getTextureHandle(depthTexture)
         IN IF depthTextureHandle = backbufferDepthStencilTextureHandle
            THEN [thrown |-> Error("the depth/stencil back buffer is not allowed as a depth texture", <<>>),
                  depthEnabled |-> FALSE,
                  lookups |-> {}]
            ELSE IF getTextureDescription(textures, depthTextureHandle).options.samples = samples
            THEN [thrown |-> Error("the depth texture and the output texture must have the same number of samples", <<>>),
                  depthEnabled |-> FALSE,
                  lookups |-> {depthTextureHandle}]
            ELSE [thrown |-> NoError, depthEnabled |-> TRUE, lookups |-> {depthTextureHandle}]

\* _checkDepthTextureCompatibility: whether depth is enabled, or the error thrown;
\* lookups are the handles whose description was read.
CheckDepthTextureCompatibility(textures) ==
    IF depthTexture = Undefined
    THEN [thrown |-> NoError, depthEnabled |-> FALSE, lookups |-> {}]
    ELSE LET depthTextureHandle == getTextureHandle(depthTexture)
         IN IF depthTextureHandle = backbufferDepthStencilTextureHandle
            THEN [thrown |-> Error("the depth/stencil back buffer is not allowed as a depth texture", <<>>),
                  depthEnabled |-> FALSE,
                  lookups |-> {}]
            ELSE IF getTextureDescription(textures, depthTextureHandle).options.samples # samples
            THEN [thrown |-> Error("the depth texture and the output texture must have the same number of samples", <<>>),
                  depthEnabled |-> FALSE,
                  lookups |-> {depthTextureHandle}]
            ELSE [thrown |-> NoError, depthEnabled |-> TRUE, lookups |-> {depthTextureHandle}]

\* AbstractEngine.buildTextureLayout: attachment i of a true entry, none (0) of a false one.
buildTextureLayout(textureStatus) ==
    [i \in DOMAIN textureStatus |-> IF textureStatus[i] THEN i ELSE 0]

\* A layout created at iteration i without the entries of the earlier attachments.
NewLayoutNotFilled(i) == <<>>

\* The layout created at iteration i for a clear type met for the first time:
\* false for every earlier attachment.
NewLayout(i) == [j \in 1..(i - 1) |-> FALSE]

\* The loop of _buildClearAttachmentsLayout from iteration i on; layouts is the
\* local Map<TextureClearType, boolean[]> as its entries in insertion order.
RECURSIVE ClearLayoutLoop(_, _, _)
ClearLayoutLoop(descriptions, i, layouts) ==
    IF i > Len(descriptions)
    THEN layouts
    ELSE LET geometryDescription == GeometryTextureDescriptions[FindIndex(descriptions[i].type)]
             withNew == IF \E e \in DOMAIN layouts : layouts[e].clearType = geometryDescription.clearType
                        THEN layouts
                        ELSE Append(layouts, [clearType |-> geometryDescription.clearType, layout |-> NewLayout(i)])
             pushed == [e \in DOMAIN withNew |->
                           [clearType |-> withNew[e].clearType,
                            layout |-> Append(withNew[e].layout, withNew[e].clearType = geometryDescription.clearType)]]
         IN ClearLayoutLoop(descriptions, i + 1, pushed)

\* _buildClearAttachmentsLayout writing into the Map the task already holds
\* instead of a new one: the layouts of the kinds no longer present stay.
BuildClearAttachmentsLayoutIntoOldMap(descriptions) ==
    LET booleans == ClearLayoutLoop(descriptions, 1, <<>>)
        built == [e \in DOMAIN booleans |->
                     [clearType |-> booleans[e].clearType, layout |-> buildTextureLayout(booleans[e].layout)]]
        kept == SelectSeq(clearAttachmentsLayout,
                          LAMBDA old : \A e \in DOMAIN built : built[e].clearType # old.clearType)
    IN [clear |-> kept \o built,
        all |-> buildTextureLayout([i \in DOMAIN descriptions |-> TRUE])]

\* _buildClearAttachmentsLayout: the new _clearAttachmentsLayout and _allAttachmentsLayout.
BuildClearAttachmentsLayout(descriptions) ==
    LET booleans == ClearLayoutLoop(descriptions, 1, <<>>)
    IN [clear |-> [e \in DOMAIN booleans |->
                      [clearType |-> booleans[e].clearType, layout |-> buildTextureLayout(booleans[e].layout)]],
        all |-> buildTextureLayout([i \in DOMAIN descriptions |-> TRUE])]

\* The names of the output references the task exposes.
OutputReferences ==
    <<"output", "outputDepth",
      "geometryViewDepth", "geometryScreenDepth", "geometryViewNormal", "geometryWorldNormal",
      "geometryLocalPosition", "geometryWorldPosition", "geometryAlbedo", "geometryReflectivity",
      "geometryVelocity", "geometryLinearVelocity">>

\* FrameGraph.getTextureHandle of a task output reference [task, name]: the
\* handles the passes of the task registered under that name; resolving fails
\* when there is none.
HandlesOfReference(passes, task, name) ==
    UNION {{passes[p].outputs[o].handle :
                o \in {u \in DOMAIN passes[p].outputs : passes[p].outputs[u].name = name}} :
            p \in {q \in DOMAIN passes : passes[q].name = task}}

\* The names recordFrameGraph registers as outputs of its pass, in call order.
OutputNames ==
    <<"geometryViewDepth", "geometryScreenDepth", "geometryViewNormal", "geometryWorldNormal",
      "geometryLocalPosition", "geometryWorldPosition", "geometryAlbedo", "geometryReflectivity",
      "geometryVelocity", "geometryLinearVelocity">>

\* frameGraph.addRenderPass followed by the setters recordFrameGraph calls on the pass.
NewPass(outputTextureHandle, depthEnabled) ==
    [name |-> TaskName,
     renderTarget |-> outputTextureHandle,
     outputs |-> [i \in DOMAIN OutputNames |-> [handle |-> outputTextureHandle, mipLevel |-> 0, name |-> OutputNames[i]]],
     renderTargetDepth |-> IF depthTexture # Undefined THEN <<getTextureHandle(depthTexture)>> ELSE Undefined,
     depthEnabled |-> depthEnabled,
     objectList |-> objectList]

\* The first check of recordFrameGraph looking at the descriptions only.
NothingToRecordDescriptionsOnly == Len(textureDescriptions) = 0

\* The first check of recordFrameGraph: no description or no object list.
NothingToRecord == Len(textureDescriptions) = 0 \/ objectList = Undefined

\* MaterialHelperGeometryRendering.CreateConfiguration: no define is set.
CreateConfiguration == <<[defines |-> [k \in DOMAIN GeometryTextureDescriptions |-> 0]]>>

\* The error of reading a property of undefined.
TypeError == [task |-> "", text |-> "TypeError: cannot read properties of undefined", args |-> <<>>]

\* _registerForRenderPassId: the define of each description's catalogue entry
\* becomes the description's position (counted from 1 here, 0 being no
\* define); reading the defines of a deleted configuration throws.
RegisterForRenderPassId(config) ==
    IF config = Undefined
    THEN [thrown |-> TypeError, configuration |-> config]
    ELSE [thrown |-> NoError,
          configuration |->
              <<[defines |-> [k \in DOMAIN GeometryTextureDescriptions |->
                    IF \E i \in DOMAIN textureDescriptions : FindIndex(textureDescriptions[i].type) = k
                    THEN CHOOSE i \in DOMAIN textureDescriptions :
                            /\ FindIndex(textureDescriptions[i].type) = k
                            /\ \A j \in DOMAIN textureDescriptions :
                                  FindIndex(textureDescriptions[j].type) = k => j <= i
                    ELSE config[1].defines[k]]]>>]

\* What one call of recordFrameGraph does to the task and the frame graph.
RecordOutcome ==
    IF NothingToRecord
    THEN [thrown |-> Error("object list and at least one geometry texture description must be provided", <<>>),
          textures |-> fgTextures, passes |-> fgPasses, lookups |-> {},
          clear |-> clearAttachmentsLayout, all |-> allAttachmentsLayout, rttSize |-> rttSize,
          configuration |-> configuration]
    ELSE LET created == CreateMultiRenderTargetTexture(fgTextures)
         IN IF created.thrown # NoError
            THEN [thrown |-> created.thrown,
                  textures |-> created.textures, passes |-> fgPasses, lookups |-> {},
                  clear |-> clearAttachmentsLayout, all |-> allAttachmentsLayout, rttSize |-> rttSize,
                  configuration |-> configuration]
            ELSE LET depth == CheckDepthTextureCompatibility(created.textures)
                 IN IF depth.thrown # NoError
                    THEN [thrown |-> depth.thrown,
                          textures |-> created.textures, passes |-> fgPasses, lookups |-> depth.lookups,
                          clear |-> clearAttachmentsLayout, all |-> allAttachmentsLayout, rttSize |-> rttSize,
                          configuration |-> configuration]
                    ELSE LET layouts == BuildClearAttachmentsLayout(textureDescriptions)
                             registered == RegisterForRenderPassId(configuration)
                             outputTextureHandle == created.handle[1]
                         IN IF registered.thrown # NoError
                            THEN [thrown |-> registered.thrown,
                                  textures |-> created.textures, passes |-> fgPasses, lookups |-> depth.lookups,
                                  clear |-> layouts.clear, all |-> layouts.all, rttSize |-> rttSize,
                                  configuration |-> configuration]
                            ELSE [thrown |-> NoError,
                                  textures |-> created.textures,
                                  passes |-> Append(fgPasses, NewPass(outputTextureHandle, depth.depthEnabled)),
                                  lookups |-> depth.lookups \cup {outputTextureHandle},
                                  clear |-> layouts.clear,
                                  all |-> layouts.all,
                                  rttSize |-> getTextureDescription(created.textures, outputTextureHandle).size,
                                  configuration |-> registered.configuration]

(***************************************************************************)
(* WebGPUDrawContext                                                       *)
(***************************************************************************)

\* The names buffers are bound under: one vertex attribute and the index buffer.
BufferNames == {"position", "indices"}

\* null given where a buffer is expected.
NullBuffer == 0

\* The uniqueId of the data buffers: two vertex buffers, the mesh's index
\* buffer (32 bits), the dummy index buffer of the draw context.
VertexBufferIds == {1, 2}
IndexBufferId == 3
DummyIndexBufferId == 4

\* The values given to isDirty and resetIsDirty.
UpdateIds == {0, 1, 2}

\* Most raw buffers the buffer manager creates.
MaxRawBuffers == 3

\* Largest instance count given to setIndirectData.
MaxInstances == 2

\* buffer?.uniqueId of a bound slot: undefined for null and for a name
\* nothing is bound under.
UniqueIdOf(slot) == IF slot = Undefined \/ slot = <<NullBuffer>> THEN Undefined ELSE slot

\* isDirty(materialContextUpdateId)
isDirty(u) == dirtyFlag \/ materialContextUpdateId # u

\* A setBuffer that never looks at the uniqueIds.
BufferChangedNever(buffer, slot) == FALSE

\* setBuffer: buffer?.uniqueId !== this.buffers[name]?.uniqueId
BufferChanged(buffer, slot) == UniqueIdOf(<<buffer>>) # UniqueIdOf(slot)

\* setBuffer(name, buffer) on the fields [dirty, buffers].
SetBufferOutcome(ctx, name, buffer) ==
    [dirty |-> ctx.dirty \/ BufferChanged(buffer, ctx.buffers[name]),
     buffers |-> [ctx.buffers EXCEPT ![name] = <<buffer>>]]

\* The setBuffer calls of a list of [name, buffer], from position i on.
RECURSIVE SetBuffers(_, _, _)
SetBuffers(calls, i, ctx) ==
    IF i > Len(calls) THEN ctx ELSE SetBuffers(calls, i + 1, SetBufferOutcome(ctx, calls[i][1], calls[i][2]))

\* The setBuffer calls setVertexPulling makes once the flag has changed, in
\* order: the override vertex buffers, the vertex buffers that are not
\* overridden, the index buffer. vertexBuffer and override are the entries of
\* the "position" attribute (override is Undefined when there is no
\* overrideVertexBuffers object); names is the pipeline's bufferNames.
VertexPullingCalls(use, names, vertexBuffer, indexBuffer, override) ==
    (IF override # Undefined /\ override # <<NullBuffer>> /\ "position" \in names
     THEN << <<"position", IF use THEN override[1] ELSE NullBuffer>> >>
     ELSE <<>>)
    \o (IF override = Undefined /\ vertexBuffer # NullBuffer /\ "position" \in names
        THEN << <<"position", IF use THEN vertexBuffer ELSE NullBuffer>> >>
        ELSE <<>>)
    \o (IF "indices" \in names
        THEN << <<"indices", IF ~use THEN NullBuffer
                             ELSE IF indexBuffer # NullBuffer THEN indexBuffer ELSE DummyIndexBufferId>> >>
        ELSE <<>>)

\* The uniforms setVertexPulling updates on the pipeline's uniform buffer.
UniformUpdates(use, names, indexBuffer) ==
    IF "indices" \in names /\ use
    THEN << <<"hasIndices", IF indexBuffer # NullBuffer THEN 1 ELSE 0>>,
            <<"indicesAre32bit", IF indexBuffer # NullBuffer THEN 1 ELSE 0>> >>
    ELSE <<>>

\* The useInstancing setter that keeps the instance count it had.
UseInstancingOutcomeKeepsCount(use) ==
    IF useInstancing = use
    THEN [buffer |-> indirectDrawBuffer, data |-> indirectDrawData, count |-> currentInstanceCount, raw |-> rawBuffers]
    ELSE IF ~use
         THEN [buffer |-> Undefined, data |-> Undefined, count |-> currentInstanceCount,
               raw |-> IF indirectDrawBuffer # Undefined
                       THEN [rawBuffers EXCEPT ![indirectDrawBuffer[1]].released = @ + 1]
                       ELSE rawBuffers]
         ELSE [buffer |-> <<Len(rawBuffers) + 1>>, data |-> <<0, 0, 0, 0, 0>>, count |-> currentInstanceCount,
               raw |-> Append(rawBuffers, [released |-> 0, data |-> <<>>])]

\* The useInstancing setter: the indirect draw buffer, the data array, the
\* current instance count and the buffer manager's buffers after it.
UseInstancingOutcome(use) ==
    IF useInstancing = use
    THEN [buffer |-> indirectDrawBuffer, data |-> indirectDrawData, count |-> currentInstanceCount, raw |-> rawBuffers]
    ELSE IF ~use
         THEN [buffer |-> Undefined, data |-> Undefined, count |-> -1,
               raw |-> IF indirectDrawBuffer # Undefined
                       THEN [rawBuffers EXCEPT ![indirectDrawBuffer[1]].released = @ + 1]
                       ELSE rawBuffers]
         ELSE [buffer |-> <<Len(rawBuffers) + 1>>, data |-> <<0, 0, 0, 0, 0>>, count |-> -1,
               raw |-> Append(rawBuffers, [released |-> 0, data |-> <<>>])]

\* The draw context after its constructor.
DrawContextInit ==
    /\ useInstancing = FALSE
    /\ currentInstanceCount = 0
    /\ vertexPullingEnabled = FALSE
    /\ buffers = [n \in BufferNames |-> Undefined]
    /\ dirtyFlag = TRUE
    /\ materialContextUpdateId = 0
    /\ indirectDrawBuffer = Undefined
    /\ indirectDrawData = Undefined
    /\ rawBuffers = <<>>
    /\ uniformUpdates = <<>>
    /\ lastResetId = Undefined
    /\ sinceReset = {}
    /\ indirectCall = Undefined

\* The variables the draw context's operations leave alone.
notDrawVars == <<taskFields, taskPrivate, frameGraph, callLog, graphVars, runtimeVars, watcherVars>>

instancingVars == <<useInstancing, indirectDrawBuffer, indirectDrawData, currentInstanceCount, rawBuffers>>

\* drawContext.resetIsDirty(u)
ResetIsDirty ==
    \E u \in UpdateIds :
        /\ dirtyFlag' = FALSE
        /\ materialContextUpdateId' = u
        /\ lastResetId' = <<u>>
        /\ sinceReset' = {}
        /\ indirectCall' = Undefined
        /\ lastOp' = "resetIsDirty"
        /\ UNCHANGED <<buffers, vertexPullingEnabled, uniformUpdates, instancingVars, notDrawVars>>

\* drawContext.reset()
Reset ==
    /\ buffers' = [n \in BufferNames |-> Undefined]
    /\ dirtyFlag' = TRUE
    /\ materialContextUpdateId' = 0
    /\ vertexPullingEnabled' = FALSE
    /\ sinceReset' = sinceReset \cup {"reset"}
    /\ indirectCall' = Undefined
    /\ lastOp' = "reset"
    /\ UNCHANGED <<uniformUpdates, lastResetId, instancingVars, notDrawVars>>

\* drawContext.setBuffer(name, buffer); on a disposed context the access to
\* this.buffers[name] throws and nothing changes.
SetBuffer ==
    \E name \in BufferNames, buffer \in {NullBuffer} \cup VertexBufferIds :
        /\ IF buffers = Undefined
           THEN /\ UNCHANGED <<buffers, dirtyFlag, sinceReset>>
                /\ lastOp' = "setBuffer threw"
           ELSE /\ buffers' = SetBufferOutcome([dirty |-> dirtyFlag, buffers |-> buffers], name, buffer).buffers
                /\ dirtyFlag' = SetBufferOutcome([dirty |-> dirtyFlag, buffers |-> buffers], name, buffer).dirty
                /\ sinceReset' = sinceReset \cup
                      (IF buffer # NullBuffer /\ <<buffer>> # buffers[name] THEN {"setBuffer"} ELSE {})
                /\ lastOp' = "setBuffer"
        /\ indirectCall' = Undefined
        /\ UNCHANGED <<materialContextUpdateId, vertexPullingEnabled, uniformUpdates, lastResetId, instancingVars, notDrawVars>>

\* drawContext.setVertexPulling(useVertexPulling, pipelineContext, vertexBuffers,
\* indexBuffer, overrideVertexBuffers): nothing when the flag does not change;
\* on a disposed context the first setBuffer call throws, after the flag and
\* _isDirty were written.
SetVertexPulling ==
    \E use \in BOOLEAN, names \in SUBSET BufferNames,
       vertexBuffer \in {NullBuffer} \cup VertexBufferIds,
       indexBuffer \in {NullBuffer, IndexBufferId},
       override \in {Undefined, <<NullBuffer>>} \cup {<<b>> : b \in VertexBufferIds} :
        /\ IF vertexPullingEnabled = use
           THEN UNCHANGED <<vertexPullingEnabled, dirtyFlag, buffers, uniformUpdates, sinceReset>>
           ELSE LET calls == VertexPullingCalls(use, names, vertexBuffer, indexBuffer, override)
                IN /\ vertexPullingEnabled' = use
                   /\ dirtyFlag' = TRUE
                   /\ sinceReset' = sinceReset \cup {"setVertexPulling"}
                   /\ IF buffers = Undefined
                      THEN /\ buffers' = buffers
                           /\ uniformUpdates' = IF calls = <<>> THEN UniformUpdates(use, names, indexBuffer) ELSE <<>>
                      ELSE /\ buffers' = SetBuffers(calls, 1, [dirty |-> TRUE, buffers |-> buffers]).buffers
                           /\ uniformUpdates' = UniformUpdates(use, names, indexBuffer)
        /\ indirectCall' = Undefined
        /\ lastOp' = "setVertexPulling"
        /\ UNCHANGED <<materialContextUpdateId, lastResetId, instancingVars, notDrawVars>>

\* drawContext.useInstancing = use
SetUseInstancing ==
    \E use \in BOOLEAN :
        /\ (use /\ ~useInstancing) => Len(rawBuffers) < MaxRawBuffers
        /\ indirectDrawBuffer' = UseInstancingOutcome(use).buffer
        /\ indirectDrawData' = UseInstancingOutcome(use).data
        /\ currentInstanceCount' = UseInstancingOutcome(use).count
        /\ rawBuffers' = UseInstancingOutcome(use).raw
        /\ useInstancing' = use
        /\ indirectCall' = Undefined
        /\ lastOp' = "useInstancing"
        /\ UNCHANGED <<dirtyFlag, materialContextUpdateId, buffers, vertexPullingEnabled, uniformUpdates,
                       lastResetId, sinceReset, notDrawVars>>

\* drawContext.setIndirectData(indexOrVertexCount, instanceCount, firstIndexOrVertex)
SetIndirectData ==
    \E indexOrVertexCount \in {3, 6}, instanceCount \in 0..MaxInstances, firstIndexOrVertex \in {0} :
        /\ IF instanceCount = currentInstanceCount \/ indirectDrawBuffer = Undefined \/ indirectDrawData = Undefined
           THEN /\ UNCHANGED <<currentInstanceCount, indirectDrawData, rawBuffers>>
                /\ indirectCall' = <<[count |-> instanceCount, written |-> FALSE]>>
           ELSE LET data == <<indexOrVertexCount, instanceCount, firstIndexOrVertex,
                              indirectDrawData[4], indirectDrawData[5]>>
                IN /\ currentInstanceCount' = instanceCount
                   /\ indirectDrawData' = data
                   /\ rawBuffers' = [rawBuffers EXCEPT ![indirectDrawBuffer[1]].data = data]
                   /\ indirectCall' = <<[count |-> instanceCount, written |-> TRUE]>>
        /\ lastOp' = "setIndirectData"
        /\ UNCHANGED <<dirtyFlag, materialContextUpdateId, buffers, vertexPullingEnabled, uniformUpdates,
                       useInstancing, indirectDrawBuffer, lastResetId, sinceReset, notDrawVars>>

\* drawContext.dispose()
DisposeContext ==
    /\ IF indirectDrawBuffer # Undefined
       THEN /\ rawBuffers' = [rawBuffers EXCEPT ![indirectDrawBuffer[1]].released = @ + 1]
            /\ indirectDrawBuffer' = Undefined
            /\ indirectDrawData' = Undefined
       ELSE UNCHANGED <<rawBuffers, indirectDrawBuffer, indirectDrawData>>
    /\ buffers' = Undefined
    /\ indirectCall' = Undefined
    /\ lastOp' = "dispose"
    /\ UNCHANGED <<dirtyFlag, materialContextUpdateId, vertexPullingEnabled, uniformUpdates, useInstancing,
                   currentInstanceCount, lastResetId, sinceReset, notDrawVars>>

(***************************************************************************)
(* Inspector watcher service                                               *)
(***************************************************************************)

\* Most interval timers created.
MaxTimers == 3

\* Most properties watched in each way.
MaxWatched == 1

\* WatcherSettingDescriptor: the key and the default value; a setting without
\* interval has interval 0.
WatcherSettingDescriptor == [key |-> "WatcherSettings", defaultValue |-> [mode |-> "intercept", interval |-> 0]]

\* The watcher settings the store can hold: the default, and each mode with
\* one of two polling intervals.
StoredSettings ==
    {WatcherSettingDescriptor.defaultValue}
        \cup {[mode |-> m, interval |-> i] : m \in {"intercept", "polling", "manual"}, i \in {250, 500}}

\* clearInterval(pollingHandle); pollingHandle = null
ClearPolling(st) ==
    IF st.pollingHandle # Undefined
    THEN [pollingHandle |-> Undefined,
          refreshObservable |-> st.refreshObservable,
          timers |-> [t \in DOMAIN st.timers |->
                         IF t = st.pollingHandle[1] THEN [live |-> FALSE, interval |-> st.timers[t].interval]
                         ELSE st.timers[t]]]
    ELSE st

\* The rest of applySettings, after the handle was cleared.
ApplyMode(stored, st) ==
    IF stored.mode = "intercept"
    THEN [pollingHandle |-> st.pollingHandle, refreshObservable |-> Undefined, timers |-> st.timers]
    ELSE LET pollingObservable == IF st.refreshObservable # Undefined THEN st.refreshObservable ELSE <<0>>
         IN IF stored.mode = "polling"
            THEN [pollingHandle |-> <<Len(st.timers) + 1>>,
                  refreshObservable |-> pollingObservable,
                  timers |-> Append(st.timers, [live |-> TRUE, interval |-> stored.interval])]
            ELSE [pollingHandle |-> st.pollingHandle, refreshObservable |-> pollingObservable, timers |-> st.timers]

\* applySettings that sets a new interval without clearing the one it holds.
ApplySettingsKeepsTimer(stored, st) == ApplyMode(stored, st)

\* applySettings on [pollingHandle, refreshObservable, timers], the store
\* holding `stored`.
ApplySettings(stored, st) == ApplyMode(stored, ClearPolling(st))

\* The service after its factory, the store holding `stored`.
WatcherInit(stored) ==
    LET applied == ApplySettings(stored, [pollingHandle |-> Undefined, refreshObservable |-> Undefined, timers |-> <<>>])
    IN /\ settings = stored
       /\ pollingHandle = applied.pollingHandle
       /\ refreshObservable = applied.refreshObservable
       /\ timers = applied.timers
       /\ intercepted = 0
       /\ storeObserver = TRUE
       /\ serviceDisposed = FALSE

\* The variables the watcher service's operations leave alone.
notWatcherVars == <<taskFields, taskPrivate, frameGraph, callLog, graphVars, runtimeVars, drawVars>>

\* The store writes the watcher settings and notifies onChanged with their
\* key; the service's observer, while registered, applies them.
ChangeSetting ==
    \E stored \in StoredSettings :
        /\ (storeObserver /\ stored.mode = "polling") => Len(timers) < MaxTimers
        /\ settings' = stored
        /\ IF storeObserver
           THEN LET applied == ApplySettings(stored, [pollingHandle |-> pollingHandle,
                                                      refreshObservable |-> refreshObservable,
                                                      timers |-> timers])
                IN /\ pollingHandle' = applied.pollingHandle
                   /\ refreshObservable' = applied.refreshObservable
                   /\ timers' = applied.timers
           ELSE UNCHANGED <<pollingHandle, refreshObservable, timers>>
        /\ lastOp' = "setting changed"
        /\ UNCHANGED <<intercepted, storeObserver, serviceDisposed, notWatcherVars>>

\* The store notifies onChanged with another key: the observer does nothing.
ChangeOtherSetting ==
    /\ lastOp' = "other setting changed"
    /\ UNCHANGED <<watcherVars, notWatcherVars>>

\* watcherService.watchProperty(target, key, onChanged): an observer of the
\* refresh observable when there is one, an interception otherwise.
WatchProperty ==
    /\ IF refreshObservable # Undefined
       THEN /\ refreshObservable[1] < MaxWatched
            /\ refreshObservable' = <<refreshObservable[1] + 1>>
            /\ UNCHANGED intercepted
       ELSE /\ intercepted < MaxWatched
            /\ intercepted' = intercepted + 1
            /\ UNCHANGED refreshObservable
    /\ lastOp' = "watchProperty"
    /\ UNCHANGED <<settings, pollingHandle, storeObserver, timers, serviceDisposed, notWatcherVars>>

\* watcherService.refresh(): the observers are notified.
Refresh ==
    /\ lastOp' = "refresh"
    /\ UNCHANGED <<watcherVars, notWatcherVars>>

\* A live interval timer fires: the observers are notified.
TimerFires ==
    /\ \E t \in DOMAIN timers : timers[t].live
    /\ lastOp' = "timer"
    /\ UNCHANGED <<watcherVars, notWatcherVars>>

\* watcherService.dispose()
DisposeService ==
    /\ pollingHandle' = ClearPolling([pollingHandle |-> pollingHandle, refreshObservable |-> refreshObservable,
                                      timers |-> timers]).pollingHandle
    /\ timers' = ClearPolling([pollingHandle |-> pollingHandle, refreshObservable |-> refreshObservable,
                               timers |-> timers]).timers
    /\ refreshObservable' = Undefined
    /\ storeObserver' = FALSE
    /\ serviceDisposed' = TRUE
    /\ lastOp' = "dispose"
    /\ UNCHANGED <<settings, intercepted, notWatcherVars>>

(***************************************************************************)
(* The task's operations                                                   *)
(***************************************************************************)

\* The task after its constructor, on a frame graph that holds the imported
\* depth textures and no pass.
SystemInitWith(descriptions, objects, stored) ==
    /\ textureDescriptions = descriptions
    /\ objectList = objects
    /\ depthTexture = Undefined
    /\ samples = 1
    /\ size = [width |-> 100, height |-> 100]
    /\ sizeIsPercentage = TRUE
    /\ clearAttachmentsLayout = <<>>
    /\ allAttachmentsLayout = <<>>
    /\ rttSize = [width |-> 1, height |-> 1]
    /\ screen = [width |-> 1920, height |-> 1080]
    /\ fgTextures = ImportedTextures(screen)
    /\ fgPasses = <<>>
    /\ thrown = NoError
    /\ descLookups = {}
    /\ lastOp = "new"
    /\ configuration = CreateConfiguration
    /\ rttDisposed = FALSE
    /\ rttReady = FALSE
    /\ notReady = {}
    /\ frameLog = <<>>
    /\ depthTest = TRUE
    /\ depthWrite = TRUE
    /\ contextCalls = <<>>
    /\ DrawContextInit
    /\ WatcherInit(stored)

\* The same, the settings store holding the default watcher settings.
TaskInitWith(descriptions, objects) ==
    SystemInitWith(descriptions, objects, WatcherSettingDescriptor.defaultValue)

TaskInit == TaskInitWith(<<>>, Undefined) /\ GraphInit

\* The frame graph holds no pass and no texture of a task: tasks are recorded
\* into a frame graph that was cleared.
FrameGraphIsClear == fgPasses = <<>> /\ Len(fgTextures) = Len(ImportedTextures(screen))

\* task.textureDescriptions = d
SetTextureDescriptions ==
    \E d \in SeqsOf({Description(t) : t \in RecordTypes}, 0, MaxPlanes) :
        /\ textureDescriptions' = d
        /\ lastOp' = "set"
        /\ UNCHANGED <<objectList, depthTexture, samples, size, sizeIsPercentage, taskPrivate, frameGraph, callLog, graphVars, runtimeVars, drawVars, watcherVars>>

\* task.objectList = o
SetObjectList ==
    \E o \in {Undefined, <<"objects">>} :
        /\ objectList' = o
        /\ lastOp' = "set"
        /\ UNCHANGED <<textureDescriptions, depthTexture, samples, size, sizeIsPercentage, taskPrivate, frameGraph, callLog, graphVars, runtimeVars, drawVars, watcherVars>>

\* task.depthTexture = t: not set, the back buffer's depth/stencil, or an imported depth texture
SetDepthTexture ==
    \E t \in {Undefined, <<backbufferDepthStencilTextureHandle>>} \cup {<<h>> : h \in HandlesOf(ImportedTextures(screen))} :
        /\ depthTexture' = t
        /\ lastOp' = "set"
        /\ UNCHANGED <<textureDescriptions, objectList, samples, size, sizeIsPercentage, taskPrivate, frameGraph, callLog, graphVars, runtimeVars, drawVars, watcherVars>>

\* task.samples = n
SetSamples ==
    \E n \in {1, 4} :
        /\ samples' = n
        /\ lastOp' = "set"
        /\ UNCHANGED <<textureDescriptions, objectList, depthTexture, size, sizeIsPercentage, taskPrivate, frameGraph, callLog, graphVars, runtimeVars, drawVars, watcherVars>>

\* task.size = sz
SetSize ==
    \E w \in {50, 33}, h \in {50, 33} :
        /\ size' = [width |-> w, height |-> h]
        /\ lastOp' = "set"
        /\ UNCHANGED <<textureDescriptions, objectList, depthTexture, samples, sizeIsPercentage, taskPrivate, frameGraph, callLog, graphVars, runtimeVars, drawVars, watcherVars>>

\* task.sizeIsPercentage = b
SetSizeIsPercentage ==
    \E b \in BOOLEAN :
        /\ sizeIsPercentage' = b
        /\ lastOp' = "set"
        /\ UNCHANGED <<textureDescriptions, objectList, depthTexture, samples, size, taskPrivate, frameGraph, callLog, graphVars, runtimeVars, drawVars, watcherVars>>

\* task.recordFrameGraph(frameGraph)
RecordFrameGraph ==
    /\ FrameGraphIsClear
    /\ LET r == RecordOutcome
       IN /\ thrown' = r.thrown
          /\ descLookups' = r.lookups
          /\ fgTextures' = r.textures
          /\ fgPasses' = r.passes
          /\ clearAttachmentsLayout' = r.clear
          /\ allAttachmentsLayout' = r.all
          /\ rttSize' = r.rttSize
          /\ configuration' = r.configuration
    /\ lastOp' = "recordFrameGraph"
    /\ UNCHANGED <<taskFields, screen, graphVars, rttDisposed, rttReady, notReady, frameLog, executeVars, drawVars, watcherVars>>

\* The frame graph drops its passes and the textures the tasks created.
ClearFrameGraph ==
    /\ fgTextures' = ImportedTextures(screen)
    /\ fgPasses' = <<>>
    /\ lastOp' = "clear"
    /\ UNCHANGED <<taskFields, taskPrivate, screen, callLog, graphVars, runtimeVars, drawVars, watcherVars>>

\* The swap chain is resized: every texture's pixel size is computed again.
ResizeScreen ==
    \E s \in {[width |-> 1920, height |-> 1080], [width |-> 1280, height |-> 720]} :
        /\ s # screen
        /\ screen' = s
        /\ fgTextures' = [i \in DOMAIN fgTextures |-> TextureEntry(fgTextures[i].name, fgTextures[i].creationOptions, s)]
        /\ lastOp' = "resize"
        /\ UNCHANGED <<taskFields, taskPrivate, fgPasses, callLog, graphVars, runtimeVars, drawVars, watcherVars>>

\* task._buildClearAttachmentsLayout() alone
ApplyBuildClearAttachmentsLayout ==
    /\ clearAttachmentsLayout' = BuildClearAttachmentsLayout(textureDescriptions).clear
    /\ allAttachmentsLayout' = BuildClearAttachmentsLayout(textureDescriptions).all
    /\ lastOp' = "_buildClearAttachmentsLayout"
    /\ UNCHANGED <<taskFields, rttSize, frameGraph, callLog, graphVars, runtimeVars, drawVars, watcherVars>>

(***************************************************************************)
(* Specifications                                                          *)
(***************************************************************************)

\* The task configured and recorded into a cleared frame graph.
Init == TaskInit

Next ==
    \/ SetTextureDescriptions
    \/ SetObjectList
    \/ SetDepthTexture
    \/ SetSamples
    \/ RecordFrameGraph
    \/ ClearFrameGraph

Spec == Init /\ [][Next]_vars

\* _buildClearAttachmentsLayout applied to every list of known descriptions.
InitLayout ==
    /\ \E d \in SeqsOf({Description(t) : t \in LayoutTypes}, 1, MaxPlanes) : TaskInitWith(d, <<"objects">>)
    /\ GraphInit

NextLayout == ApplyBuildClearAttachmentsLayout

SpecLayout == InitLayout /\ [][NextLayout]_vars

\* The task recorded with every size, on a swap chain that is resized.
InitResize == TaskInitWith(<<Description(5)>>, <<"objects">>) /\ GraphInit

NextResize ==
    \/ SetSize
    \/ SetSizeIsPercentage
    \/ RecordFrameGraph
    \/ ClearFrameGraph
    \/ ResizeScreen

SpecResize == InitResize /\ [][NextResize]_vars

\* The catalogue types the re-record specification draws descriptions from:
\* two planes of different clear kinds.
RerecordTypes == {5, 6}

\* task.textureDescriptions = d, every type of d in the catalogue
SetKnownTextureDescriptions ==
    \E d \in SeqsOf({Description(t) : t \in RerecordTypes}, 0, MaxPlanes) :
        /\ textureDescriptions' = d
        /\ lastOp' = "set"
        /\ UNCHANGED <<objectList, depthTexture, samples, size, sizeIsPercentage, taskPrivate, frameGraph, callLog, graphVars, runtimeVars, drawVars, watcherVars>>

\* The task recorded again and again, its descriptions changed in between.
InitRerecord == TaskInitWith(<<>>, <<"objects">>) /\ GraphInit

NextRerecord ==
    \/ SetKnownTextureDescriptions
    \/ RecordFrameGraph
    \/ ClearFrameGraph

SpecRerecord == InitRerecord /\ [][NextRerecord]_vars

\* The draw context bound, reset and asked whether it is dirty.
InitDirty == TaskInit

NextDirty ==
    \/ ResetIsDirty
    \/ Reset
    \/ SetBuffer
    \/ SetVertexPulling
    \/ DisposeContext

SpecDirty == InitDirty /\ [][NextDirty]_vars

\* The draw context's instancing switched on and off, drawn with, disposed.
InitIndirect == TaskInit

NextIndirect ==
    \/ SetUseInstancing
    \/ SetIndirectData
    \/ DisposeContext

SpecIndirect == InitIndirect /\ [][NextIndirect]_vars

\* The watcher service created on a store holding any settings, the settings
\* changed, the service used and disposed.
InitWatcher ==
    /\ \E stored \in StoredSettings : SystemInitWith(<<>>, Undefined, stored)
    /\ GraphInit

NextWatcher ==
    \/ ChangeSetting
    \/ ChangeOtherSetting
    \/ WatchProperty
    \/ Refresh
    \/ TimerFires
    \/ DisposeService

SpecWatcher == InitWatcher /\ [][NextWatcher]_vars

(***************************************************************************)
(* Properties of the geometry renderer task                                *)
(***************************************************************************)

\* The task's fields pass the checks recordFrameGraph makes before the depth check.
RecordableDescriptions ==
    /\ Len(textureDescriptions) > 0
    /\ objectList # Undefined
    /\ UnknownPositions = {}

\* The depth texture is an explicit texture whose sample count is not the task's.
DepthSamplesDiffer ==
    /\ depthTexture # Undefined
    /\ getTextureHandle(depthTexture) # backbufferDepthStencilTextureHandle
    /\ getTextureDescription(fgTextures, getTextureHandle(depthTexture)).options.samples # samples

SamplesErrorText == "the depth texture and the output texture must have the same number of samples"

BackBufferErrorText == "the depth/stencil back buffer is not allowed as a depth texture"

\* C1: the layouts _buildClearAttachmentsLayout computes for N descriptions of
\* known types all have length N, and every attachment index is set in exactly
\* one of them (and so not set in all the others).
C1_ClearLayoutsPartition ==
    LET n == Len(allAttachmentsLayout)
    IN /\ lastOp = "_buildClearAttachmentsLayout" => n = Len(textureDescriptions)
       /\ \A e \in DOMAIN clearAttachmentsLayout : Len(clearAttachmentsLayout[e].layout) = n
       /\ \A i \in 1..n :
             Cardinality({e \in DOMAIN clearAttachmentsLayout : clearAttachmentsLayout[e].layout[i] # 0}) = 1

\* C1 witness: layouts built for MaxPlanes descriptions of at least two clear
\* kinds, one of the kinds first met after the first attachment.
C1_Witness ==
    /\ lastOp = "_buildClearAttachmentsLayout"
    /\ Len(allAttachmentsLayout) = MaxPlanes
    /\ Len(clearAttachmentsLayout) >= 2
    /\ \E e \in DOMAIN clearAttachmentsLayout :
          /\ clearAttachmentsLayout[e].layout[1] = 0
          /\ clearAttachmentsLayout[e].layout[MaxPlanes] # 0

\* C2 as stated: recordFrameGraph with a depth texture of another sample count
\* throws, and the message holds both sample counts.
C2_SamplesErrorNamesBothCounts ==
    (lastOp = "recordFrameGraph" /\ RecordableDescriptions /\ DepthSamplesDiffer)
        => /\ thrown # NoError
           /\ samples \in Range(thrown.args)
           /\ getTextureDescription(fgTextures, getTextureHandle(depthTexture)).options.samples \in Range(thrown.args)

\* C2 as amended: recordFrameGraph with a depth texture of another sample count
\* throws an error that names the task and the rule (same number of samples);
\* no value besides the task name is put into the message.
C2_SamplesErrorThrown ==
    (lastOp = "recordFrameGraph" /\ RecordableDescriptions /\ DepthSamplesDiffer)
        => /\ thrown.task = TaskName
           /\ thrown.text = SamplesErrorText
           /\ thrown.args = <<>>

\* C2 witness: a record call that threw the sample count error.
C2_Witness ==
    /\ lastOp = "recordFrameGraph"
    /\ RecordableDescriptions
    /\ DepthSamplesDiffer
    /\ thrown.text = SamplesErrorText

\* C3: recordFrameGraph with the back buffer's depth/stencil handle as depth
\* texture throws an error naming the task, and no description of that handle
\* was read.
C3_BackBufferDepthRejectedFirst ==
    (/\ lastOp = "recordFrameGraph"
     /\ RecordableDescriptions
     /\ depthTexture = <<backbufferDepthStencilTextureHandle>>)
        => /\ thrown.task = TaskName
           /\ thrown.text = BackBufferErrorText
           /\ backbufferDepthStencilTextureHandle \notin descLookups

\* C3 witness: a record call that threw the back buffer error while the task's
\* sample count differs from that of every imported depth texture's default.
C3_Witness ==
    /\ lastOp = "recordFrameGraph"
    /\ depthTexture = <<backbufferDepthStencilTextureHandle>>
    /\ samples = 4
    /\ thrown.text = BackBufferErrorText

\* C4 as stated: a recordFrameGraph call that throws leaves the frame graph's
\* texture table and pass list as they were before the call.
C4_ThrowLeavesFrameGraphUnchanged ==
    [][(lastOp' = "recordFrameGraph" /\ thrown' # NoError)
          => (fgTextures' = fgTextures /\ fgPasses' = fgPasses)]_vars

\* The pixel sizes agree with the creation options and the current screen: the
\* texture just recorded, every percentage texture, every absolute texture.
SizesFollowScreenNow ==
    /\ (lastOp = "recordFrameGraph" /\ thrown = NoError) =>
          LET made == fgTextures[Len(fgTextures)]
              expected == IF sizeIsPercentage
                          THEN [width |-> RoundPercent(screen.width, size.width),
                                height |-> RoundPercent(screen.height, size.height)]
                          ELSE size
          IN /\ made.dims = expected
             /\ rttSize = expected
             /\ (sizeIsPercentage /\ size = [width |-> 50, height |-> 50] /\ screen = [width |-> 1920, height |-> 1080])
                   => made.dims = [width |-> 960, height |-> 540]
    /\ \A i \in DOMAIN fgTextures :
          LET e == fgTextures[i]
          IN e.creationOptions.sizeIsPercentage =>
                /\ e.dims.width = RoundPercent(screen.width, e.creationOptions.size.width)
                /\ e.dims.height = RoundPercent(screen.height, e.creationOptions.size.height)
                /\ (e.creationOptions.size = [width |-> 50, height |-> 50] /\ screen = [width |-> 1280, height |-> 720])
                      => e.dims = [width |-> 640, height |-> 360]
    /\ \A i \in DOMAIN fgTextures :
          ~fgTextures[i].creationOptions.sizeIsPercentage => fgTextures[i].dims = fgTextures[i].creationOptions.size

\* A resize step keeps every handle and its creation options.
ResizeKeepsDescriptors ==
    lastOp' = "resize" =>
        /\ Len(fgTextures') = Len(fgTextures)
        /\ \A i \in DOMAIN fgTextures :
              /\ fgTextures'[i].name = fgTextures[i].name
              /\ fgTextures'[i].creationOptions = fgTextures[i].creationOptions

\* C10: a texture the task creates with sizeIsPercentage has
\* round(screen * size / 100) pixels per dimension (1920x1080 at 50% is 960x540),
\* which is also the size the task gives its render target; every percentage
\* texture has that size of the current screen after a resize (1280x720 at 50%
\* is 640x360), and a resize changes no texture's creation options and no
\* pixel size of a texture of absolute size.
C10_SizesFollowScreen == []SizesFollowScreenNow /\ [][ResizeKeepsDescriptors]_vars

\* C10 witness: the task's texture, created at 50% on 1920x1080, after the
\* resize to 1280x720.
C10_Witness ==
    /\ lastOp = "resize"
    /\ screen = [width |-> 1280, height |-> 720]
    /\ Len(fgTextures) > Len(ImportedTextures(screen))
    /\ rttSize = [width |-> 960, height |-> 540]
    /\ fgTextures[Len(fgTextures)].creationOptions.sizeIsPercentage
    /\ fgTextures[Len(fgTextures)].dims = [width |-> 640, height |-> 360]

(***************************************************************************)
(* NodeRenderGraph: connection point kinds                                 *)
(***************************************************************************)

\* The texture kinds of NodeRenderGraphBlockConnectionPointTypes met in the graph.
TextureAllButBackBuffer == {"Texture", "TextureViewDepth"}
TextureAll == TextureAllButBackBuffer \cup {"TextureBackBuffer"}

\* What a BasedOnInput or AutoDetect point reports while nothing resolves it.
UnresolvedKinds == {"BasedOnInput", "AutoDetect"}

\* A kind resolution that runs through a cycle of points never returns.
Diverges == "diverges"

\* Input points that all accept every texture kind.
AcceptedKindsAll(p) == TextureAll \cup UnresolvedKinds

\* The kinds an input point accepts: its declared kind and the added ones.
AcceptedKinds(p) ==
    IF p = <<"Bloom", "source">> THEN {"Texture"} \cup TextureAllButBackBuffer
    ELSE IF p = <<"Bloom", "destination">> THEN {"Texture"} \cup TextureAll
    ELSE IF p[1] \in TeleportIns THEN TextureAll \cup UnresolvedKinds
    ELSE TextureAll

\* The declared kind of an input point.
DeclaredInputKind(p) == IF p[1] \in TeleportIns THEN "AutoDetect" ELSE "Texture"

\* The bloom output's _typeConnectionSource, choosing the source input first.
BloomTypeConnectionSourcePrefersSource ==
    IF connected[<<"Bloom", "source">>] # Null THEN <<"Bloom", "source">> ELSE <<"Bloom", "destination">>

\* The bloom output's _typeConnectionSource: the destination input when it is
\* connected, the source input otherwise.
BloomTypeConnectionSource ==
    IF connected[<<"Bloom", "destination">>] # Null THEN <<"Bloom", "destination">> ELSE <<"Bloom", "source">>

\* The point that gives a BasedOnInput output its kind, Null when it has none.
TypeConnectionSource(b) ==
    IF b = "Bloom" THEN BloomTypeConnectionSource
    ELSE IF b \in TeleportOuts /\ entryPoint[b] # Null THEN <<entryPoint[b], "input">>
    ELSE Null

\* The kind of block b's output point, followed through at most fuel points.
RECURSIVE KindOfOutput(_, _)
KindOfOutput(b, fuel) ==
    IF b \in InputBlocks
    THEN (IF b = "In1" THEN "Texture" ELSE "TextureBackBuffer")
    ELSE IF TypeConnectionSource(b) = Null
    THEN "BasedOnInput"
    ELSE IF connected[TypeConnectionSource(b)] = Null
    THEN DeclaredInputKind(TypeConnectionSource(b))
    ELSE IF fuel = 0
    THEN Diverges
    ELSE KindOfOutput(connected[TypeConnectionSource(b)], fuel - 1)

\* The kind of an output point.
Kind(b) == KindOfOutput(b, Cardinality(Blocks))

\* The kind an input point resolves to: that of the point connected to it, its
\* declared kind when none is.
ResolvedInputKind(p) == IF connected[p] = Null THEN DeclaredInputKind(p) ELSE Kind(connected[p])

(***************************************************************************)
(* NodeRenderGraph: the build of the blocks                                *)
(***************************************************************************)

\* A teleport out block whose _customBuildStep builds nothing.
CustomBuildRequestsNone(b) == <<>>

\* NodeRenderGraphTeleportOutBlock._customBuildStep: the blocks it builds, in
\* order; the other blocks' custom build step builds none.
CustomBuildRequests(b) ==
    IF b \in TeleportOuts /\ entryPoint[b] # Null THEN <<entryPoint[b]>> ELSE <<>>

\* The bloom block's _buildBlock adding its task twice.
BloomBuildBlockAddsTwice(st) ==
    [st EXCEPT
        !.value["Bloom"] = BloomOutputTextureReference,
        !.bloomTask.sourceTexture =
            IF connected[<<"Bloom", "source">>] # Null THEN st.value[connected[<<"Bloom", "source">>]] ELSE @,
        !.bloomTask.destinationTexture =
            IF connected[<<"Bloom", "destination">>] # Null THEN st.value[connected[<<"Bloom", "destination">>]] ELSE @,
        !.tasks = Append(Append(@, "bloom"), "bloom")]

\* NodeRenderGraphBloomPostProcessBlock._buildBlock
BloomBuildBlock(st) ==
    [st EXCEPT
        !.value["Bloom"] = BloomOutputTextureReference,
        !.bloomTask.sourceTexture =
            IF connected[<<"Bloom", "source">>] # Null THEN st.value[connected[<<"Bloom", "source">>]] ELSE @,
        !.bloomTask.destinationTexture =
            IF connected[<<"Bloom", "destination">>] # Null THEN st.value[connected[<<"Bloom", "destination">>]] ELSE @,
        !.tasks = Append(@, "bloom")]

\* NodeRenderGraphTeleportOutBlock._buildBlock: does nothing.
TeleportOutBuildBlock(st) == st

\* The teleport in block's build step: every attached receiver's output gets the
\* value of the point connected to the block's input.
TeleportInBuildBlock(b, st) ==
    [st EXCEPT !.value = [o \in OutputBlocks |->
        IF o \in Range(endpoints[b]) THEN st.value[connected[<<b, "input">>]] ELSE st.value[o]]]

\* The build step (_buildBlock) of block b.
BuildBlockStep(b, st) ==
    IF b = "Bloom" THEN BloomBuildBlock(st)
    ELSE IF b \in TeleportOuts THEN TeleportOutBuildBlock(st)
    ELSE IF b \in TeleportIns THEN TeleportInBuildBlock(b, st)
    ELSE IF b \in InputBlocks THEN [st EXCEPT !.value[b] = InputBlockValue(b)]
    ELSE [st EXCEPT !.tasks = Append(@, "output")]

\* NodeRenderGraphBlock.build(state), called by block `by`: a block already
\* met in this build returns at once; otherwise its custom build step, then the
\* blocks feeding its inputs in order, then its own build step. A required
\* input that is not connected ends the whole build with an error.
RECURSIVE BuildNode(_, _, _), BuildInputs(_, _, _)
BuildNode(b, by, st) ==
    IF st.error # NoBuildError
    THEN st
    ELSE LET called == [st EXCEPT !.log = Append(@, [op |-> "build", block |-> b, by |-> by])]
         IN IF b \in st.built
            THEN called
            ELSE LET marked == [called EXCEPT !.built = @ \cup {b}]
                     custom == IF CustomBuildRequests(b) = <<>>
                               THEN marked
                               ELSE BuildNode(CustomBuildRequests(b)[1], b, marked)
                     fed == BuildInputs(b, 1, custom)
                 IN IF fed.error # NoBuildError
                    THEN fed
                    ELSE BuildBlockStep(b, [fed EXCEPT !.log = Append(@, [op |-> "step", block |-> b, by |-> b])])

BuildInputs(b, i, st) ==
    IF i > Len(InputsOf(b)) \/ st.error # NoBuildError
    THEN st
    ELSE LET p == <<b, InputsOf(b)[i]>>
         IN IF connected[p] = Null
            THEN (IF IsOptional(p)
                  THEN BuildInputs(b, i + 1, st)
                  ELSE [st EXCEPT !.error = [block |-> b, input |-> p[2]]])
            ELSE BuildInputs(b, i + 1, IF connected[p] # b THEN BuildNode(connected[p], b, st) ELSE st)



\* NodeRenderGraph.build(): the frame graph's task list is emptied, the blocks
\* are built from the output block, and the new list replaces the old one
\* unless the build ended with an error.
BuildOutcome ==
    BuildNode("Out", Null,
              [built |-> {}, value |-> value, bloomTask |-> bloomTask, tasks |-> <<>>,
               log |-> <<>>, error |-> NoBuildError])

(***************************************************************************)
(* NodeRenderGraph: operations                                             *)
(***************************************************************************)

\* The wires the graph is edited with: the texture to the teleport source and to
\* the bloom source, the back buffer to either bloom input (the source refuses
\* it), a receiver to each bloom input, the bloom output to the output block
\* and back to the teleport source.
Wires ==
    {<<<<"TIn", "input">>, "In1">>, <<<<"TIn", "input">>, "Bloom">>,
     <<<<"Bloom", "source">>, "In1">>, <<<<"Bloom", "source">>, "In2">>, <<<<"Bloom", "source">>, "TOutA">>,
     <<<<"Bloom", "destination">>, "In2">>, <<<<"Bloom", "destination">>, "TOutB">>,
     <<<<"Out", "texture">>, "Bloom">>}

\* output.connectTo(input): refused when the output's kind is not accepted.
Connect ==
    \E w \in Wires :
      LET p == w[1]
          o == w[2]
      IN
        /\ IF Kind(o) \in AcceptedKinds(p)
           THEN connected' = [connected EXCEPT ![p] = o] /\ lastOp' = "edit"
           ELSE connected' = connected /\ lastOp' = "connectTo refused"
        /\ buildLog' = <<>>
        /\ buildError' = NoBuildError
        /\ UNCHANGED <<value, entryPoint, endpoints, bloomTask, fgTasks, taskFields, taskPrivate, frameGraph, callLog, serialVars, cloneVars, runtimeVars, drawVars, watcherVars>>

\* input.disconnectFrom(output)
Disconnect ==
    \E p \in InputPoints :
        /\ connected[p] # Null
        /\ connected' = [connected EXCEPT ![p] = Null]
        /\ lastOp' = "edit"
        /\ buildLog' = <<>>
        /\ buildError' = NoBuildError
        /\ UNCHANGED <<value, entryPoint, endpoints, bloomTask, fgTasks, taskFields, taskPrivate, frameGraph, callLog, serialVars, cloneVars, runtimeVars, drawVars, watcherVars>>

\* NodeRenderGraphTeleportInBlock.detachFromEndpoint(endpoint): the linkage
\* after it, as [entryPoint, endpoints].
DetachFromEndpoint(source, endpoint, link) ==
    IF endpoint \in Range(link.endpoints[source])
    THEN [entryPoint |-> [link.entryPoint EXCEPT ![endpoint] = Null],
          endpoints |-> [link.endpoints EXCEPT ![source] = SelectSeq(@, LAMBDA e : e # endpoint)]]
    ELSE link

\* NodeRenderGraphTeleportOutBlock.detach() that does nothing.
DetachOutcomeNothing(endpoint, link) == link

\* NodeRenderGraphTeleportOutBlock.detach(): the linkage after it.
DetachOutcome(endpoint, link) ==
    IF link.entryPoint[endpoint] = Null
    THEN link
    ELSE DetachFromEndpoint(link.entryPoint[endpoint], endpoint, link)

\* NodeRenderGraphTeleportInBlock.attachToEndpoint(endpoint): the endpoint is
\* detached from its entry point, then added to this block's endpoints.
AttachOutcome(source, endpoint, link) ==
    LET detached == DetachOutcome(endpoint, link)
    IN [entryPoint |-> [detached.entryPoint EXCEPT ![endpoint] = source],
        endpoints |-> [detached.endpoints EXCEPT ![source] = Append(@, endpoint)]]

\* source.attachToEndpoint(receiver)
Attach ==
    \E source \in TeleportIns, endpoint \in TeleportOuts :
        LET link == AttachOutcome(source, endpoint, [entryPoint |-> entryPoint, endpoints |-> endpoints])
        IN /\ entryPoint' = link.entryPoint
           /\ endpoints' = link.endpoints
           /\ lastOp' = "edit"
           /\ buildLog' = <<>>
           /\ buildError' = NoBuildError
           /\ UNCHANGED <<connected, value, bloomTask, fgTasks, taskFields, taskPrivate, frameGraph, callLog, serialVars, cloneVars, runtimeVars, drawVars, watcherVars>>

\* The name of the operation receiver.detach().
DetachOp(endpoint) == IF endpoint = "TOutA" THEN "detach TOutA" ELSE "detach TOutB"

\* receiver.detach()
Detach ==
    \E endpoint \in TeleportOuts :
        LET link == DetachOutcome(endpoint, [entryPoint |-> entryPoint, endpoints |-> endpoints])
        IN /\ entryPoint' = link.entryPoint
           /\ endpoints' = link.endpoints
           /\ lastOp' = DetachOp(endpoint)
           /\ buildLog' = <<>>
           /\ buildError' = NoBuildError
           /\ UNCHANGED <<connected, value, bloomTask, fgTasks, taskFields, taskPrivate, frameGraph, callLog, serialVars, cloneVars, runtimeVars, drawVars, watcherVars>>

\* nodeRenderGraph.build()
Build ==
    /\ value' = BuildOutcome.value
    /\ bloomTask' = BuildOutcome.bloomTask
    /\ fgTasks' = IF BuildOutcome.error = NoBuildError THEN BuildOutcome.tasks ELSE fgTasks
    /\ buildLog' = BuildOutcome.log
    /\ buildError' = BuildOutcome.error
    /\ lastOp' = "build"
    /\ UNCHANGED <<connected, entryPoint, endpoints, taskFields, taskPrivate, frameGraph, callLog, serialVars, cloneVars, runtimeVars, drawVars, watcherVars>>

\* The node graph edited and built.
InitGraph == TaskInit

NextGraph ==
    \/ Connect
    \/ Disconnect
    \/ Attach
    \/ Detach
    \/ Build

SpecGraph == InitGraph /\ [][NextGraph]_vars

(***************************************************************************)
(* NodeRenderGraph: serialization                                          *)
(***************************************************************************)

\* The largest uniqueId the id generator hands out.
MaxUniqueId == 14

\* The next value of the id generator.
NextUniqueId == 1 + CHOOSE n \in {uniqueId[b] : b \in Blocks} : \A b \in Blocks : uniqueId[b] <= n

\* NodeRenderGraphTeleportOutBlock.serialize: the entryPoint property.
SerializeEntryPoint(r) == IF entryPoint[r] = Null THEN NoUniqueId ELSE uniqueId[entryPoint[r]]

\* A block's serialization: its id, its class (the block it is), the entry
\* point id of a teleport out block, and per input the id of the block
\* connected to it.
SerializeBlock(b) ==
    [block |-> b,
     id |-> uniqueId[b],
     entryPoint |-> IF b \in TeleportOuts THEN SerializeEntryPoint(b) ELSE NoUniqueId,
     inputs |-> [k \in DOMAIN InputsOf(b) |->
                    IF connected[<<b, InputsOf(b)[k]>>] = Null THEN NoUniqueId
                    ELSE uniqueId[connected[<<b, InputsOf(b)[k]>>]]]]

\* The array orders of a document: the teleport blocks in any order, then the
\* other blocks.
DocumentOrders ==
    {s \o <<"In1", "In2", "Bloom", "Out">> :
        s \in {t \in [1..3 -> TeleportIns \cup TeleportOuts] : Range(t) = TeleportIns \cup TeleportOuts}}

\* The block rebuilt from the entry of the given id, Null when there is none.
Lookup(map, id) == IF \E m \in map : m[1] = id THEN (CHOOSE m \in map : m[1] = id)[2] ELSE Null

\* A _deserialize that resolves the entry point among the blocks rebuilt so far
\* and keeps no id.
DeserializeSinglePass(r, entry, ps) ==
    [ps EXCEPT !.temp[r] = NoUniqueId,
               !.link = IF Lookup(ps.map, entry.entryPoint) = Null THEN @
                        ELSE AttachOutcome(Lookup(ps.map, entry.entryPoint), r, @)]

\* NodeRenderGraphTeleportOutBlock._deserialize
Deserialize(r, entry, ps) == [ps EXCEPT !.temp[r] = entry.entryPoint]

\* The first pass of a parse: every block of the document is rebuilt in array
\* order, gets a new uniqueId, is entered in the map under its serialized id,
\* and reads its own properties.
RECURSIVE ReconstructBlocks(_, _, _)
ReconstructBlocks(doc, i, ps) ==
    IF i > Len(doc)
    THEN ps
    ELSE LET entry == doc[i]
             made == [ps EXCEPT !.uniqueId[entry.block] = ps.next,
                                !.next = @ + 1,
                                !.map = @ \cup {<<entry.id, entry.block>>}]
         IN ReconstructBlocks(doc, i + 1,
                IF entry.block \in TeleportOuts THEN Deserialize(entry.block, entry, made) ELSE made)

\* The second pass, connections: every input is connected to the block rebuilt
\* from the serialized id.
ReconnectInputs(doc, map) ==
    [p \in InputPoints |->
        LET entry == doc[CHOOSE i \in DOMAIN doc : doc[i].block = p[1]]
            k == CHOOSE j \in DOMAIN InputsOf(p[1]) : InputsOf(p[1])[j] = p[2]
        IN IF entry.inputs[k] = NoUniqueId THEN Null ELSE Lookup(map, entry.inputs[k])]

\* The second pass, teleports: every teleport out block that recorded an id is
\* attached to the block rebuilt from that id.
RECURSIVE ReconnectTeleports(_, _, _)
ReconnectTeleports(doc, i, ps) ==
    IF i > Len(doc)
    THEN ps
    ELSE LET r == doc[i].block
             source == IF r \in TeleportOuts /\ ps.temp[r] # NoUniqueId THEN Lookup(ps.map, ps.temp[r]) ELSE Null
         IN ReconnectTeleports(doc, i + 1,
                IF source = Null THEN ps ELSE [ps EXCEPT !.link = AttachOutcome(source, r, @)])

\* The blocks after the first pass of a parse of the document.
FirstPass ==
    ReconstructBlocks(document, 1,
        [uniqueId |-> uniqueId, next |-> NextUniqueId, map |-> {},
         temp |-> [r \in TeleportOuts |-> NoUniqueId],
         link |-> [entryPoint |-> [r \in TeleportOuts |-> Null], endpoints |-> [b \in TeleportIns |-> <<>>]]])

\* nodeRenderGraph.serialize(), the blocks written in some array order.
Serialize ==
    \E order \in DocumentOrders :
        /\ document' = [i \in DOMAIN order |-> SerializeBlock(order[i])]
        /\ lastOp' = "serialize"
        /\ UNCHANGED <<connected, value, entryPoint, endpoints, bloomTask, fgTasks, buildLog, buildError, drawVars, watcherVars>>
        /\ UNCHANGED <<uniqueId, tempEntryPointUniqueId, firstPassEntryPoint, drawVars, watcherVars>>
        /\ UNCHANGED <<taskFields, taskPrivate, frameGraph, callLog, cloneVars, runtimeVars, drawVars, watcherVars>>

\* nodeRenderGraph.parseSerializedObject(document): the graph is cleared, the
\* blocks are rebuilt, then connections and teleports are resolved.
Parse ==
    /\ document # <<>>
    /\ NextUniqueId + Len(document) - 1 <= MaxUniqueId
    /\ LET parsed == ReconnectTeleports(document, 1, FirstPass)
       IN /\ uniqueId' = parsed.uniqueId
          /\ tempEntryPointUniqueId' = parsed.temp
          /\ firstPassEntryPoint' = FirstPass.link.entryPoint
          /\ entryPoint' = parsed.link.entryPoint
          /\ endpoints' = parsed.link.endpoints
          /\ connected' = ReconnectInputs(document, parsed.map)
    /\ value' = [b \in OutputBlocks |-> NoValue]
    /\ bloomTask' = [sourceTexture |-> NoValue, destinationTexture |-> NoValue]
    /\ buildLog' = <<>>
    /\ buildError' = NoBuildError
    /\ lastOp' = "parse"
    /\ cloneEntryPoint' = [r \in TeleportOuts |-> NoClone]
    /\ UNCHANGED <<document, fgTasks, taskFields, taskPrivate, frameGraph, callLog, runtimeVars, drawVars, watcherVars>>

\* The graph wired as texture -> teleport -> bloom -> output.
TeleportWiring ==
    [p \in InputPoints |->
        IF p = <<"TIn", "input">> THEN "In1"
        ELSE IF p = <<"Bloom", "source">> THEN "TOutA"
        ELSE IF p = <<"Bloom", "destination">> THEN "TOutB"
        ELSE "Bloom"]

\* The node graph, wired or not, with its teleports attached, detached,
\* serialized and parsed.
InitSerial ==
    /\ TaskInitWith(<<>>, Undefined)
    /\ \E wiring \in {[p \in InputPoints |-> Null], TeleportWiring} : GraphInitWith(wiring)

NextSerial ==
    \/ Attach
    \/ Detach
    \/ Serialize
    \/ Parse

SpecSerial == InitSerial /\ [][NextSerial]_vars

(***************************************************************************)
(* NodeRenderGraph: clones of teleport out blocks                          *)
(***************************************************************************)

\* The block clone() of receiver r returns.
CloneOf(r) == IF r = "TOutA" THEN "TOutA.clone" ELSE "TOutB.clone"

\* A clone() that only copies the block.
CloneOutcomeNotAttached(r, link) == link

\* NodeRenderGraphTeleportOutBlock.clone, after super.clone() made the copy:
\* the linkage once the entry point of r, if any, has attached the copy.
CloneOutcome(r, link) ==
    IF link.entryPoint[r] # Null
    THEN AttachOutcome(link.entryPoint[r], CloneOf(r), link)
    ELSE link

\* receiver.clone(): the copy made by super.clone() has no entry point.
Clone ==
    \E r \in TeleportOuts :
        /\ cloneEntryPoint[r] = NoClone
        /\ LET copied == [entryPoint |-> [b \in TeleportOuts \cup {CloneOf(r)} |->
                                             IF b \in TeleportOuts THEN entryPoint[b] ELSE Null],
                          endpoints |-> endpoints]
               link == CloneOutcome(r, copied)
           IN /\ entryPoint' = [b \in TeleportOuts |-> link.entryPoint[b]]
              /\ cloneEntryPoint' = [cloneEntryPoint EXCEPT ![r] = link.entryPoint[CloneOf(r)]]
              /\ endpoints' = link.endpoints
        /\ lastOp' = "clone"
        /\ buildLog' = <<>>
        /\ buildError' = NoBuildError
        /\ UNCHANGED <<connected, value, bloomTask, fgTasks, taskFields, taskPrivate, frameGraph, callLog, serialVars, runtimeVars, drawVars, watcherVars>>

\* The clone of receiver r is removed from the graph.
RemoveClone ==
    \E r \in TeleportOuts :
        /\ cloneEntryPoint[r] # NoClone
        /\ cloneEntryPoint' = [cloneEntryPoint EXCEPT ![r] = NoClone]
        /\ endpoints' = [s \in TeleportIns |-> SelectSeq(endpoints[s], LAMBDA e : e # CloneOf(r))]
        /\ lastOp' = "edit"
        /\ buildLog' = <<>>
        /\ buildError' = NoBuildError
        /\ UNCHANGED <<connected, value, entryPoint, bloomTask, fgTasks, taskFields, taskPrivate, frameGraph, callLog, serialVars, runtimeVars, drawVars, watcherVars>>

\* The teleports attached, detached and cloned.
InitClone == TaskInit

NextClone ==
    \/ Attach
    \/ Detach
    \/ Clone
    \/ RemoveClone

SpecClone == InitClone /\ [][NextClone]_vars

(***************************************************************************)
(* FrameGraph: tasks, passes and frames                                    *)
(***************************************************************************)

\* The tasks the node graph's blocks add to the frame graph.
OtherTasks == {"bloom", "output"}

\* An isReadyFrameGraph that does not ask the render target.
isReadyFrameGraphAlways == TRUE

\* FrameGraphGeometryRendererTask.isReadyFrameGraph
isReadyFrameGraph == rttReady

\* isReadyFrameGraph() of the task that owns a pass.
IsReady(task) == IF task = TaskName THEN isReadyFrameGraph ELSE task \notin notReady

\* The positions of the passes a task registered.
PassesOf(task) == {i \in DOMAIN fgPasses : fgPasses[i].name = task}

\* A frame that goes through the passes from the last to the first.
RECURSIVE ExecutePassesBackwards(_, _)
ExecutePassesBackwards(i, log) ==
    IF i > Len(fgPasses)
    THEN log
    ELSE ExecutePassesBackwards(i + 1,
            Append(log, [pass |-> Len(fgPasses) + 1 - i,
                         task |-> fgPasses[Len(fgPasses) + 1 - i].name,
                         op |-> IF IsReady(fgPasses[Len(fgPasses) + 1 - i].name) THEN "execute" ELSE "skip"]))

\* FrameGraph.execute: the passes from position i on, one after the other; the
\* execute function of a pass runs when its task is ready, otherwise the pass
\* is skipped.
RECURSIVE ExecutePasses(_, _)
ExecutePasses(i, log) ==
    IF i > Len(fgPasses)
    THEN log
    ELSE ExecutePasses(i + 1,
            Append(log, [pass |-> i,
                         task |-> fgPasses[i].name,
                         op |-> IF IsReady(fgPasses[i].name) THEN "execute" ELSE "skip"]))

\* A call on the FrameGraphRenderContext, with its arguments.
Call(name, args) == [call |-> name, args |-> args]

\* The execute function using the task's flags without the result of the
\* depth check.
ExecuteFuncFlagsOnly(pass) ==
    <<Call("setDepthStates", <<depthTest, depthWrite>>)>>
    \o [e \in DOMAIN clearAttachmentsLayout |->
           Call("clearColorAttachments",
                <<clearColors[clearAttachmentsLayout[e].clearType], clearAttachmentsLayout[e].layout>>)]
    \o <<Call("bindAttachments", <<allAttachmentsLayout>>), Call("render", <<"_rtt">>)>>

\* The execute function clearing after it has bound all the attachments.
ExecuteFuncBindsFirst(pass) ==
    <<Call("setDepthStates", <<depthTest /\ pass.depthEnabled, depthWrite /\ pass.depthEnabled>>),
      Call("bindAttachments", <<allAttachmentsLayout>>)>>
    \o [e \in DOMAIN clearAttachmentsLayout |->
           Call("clearColorAttachments",
                <<clearColors[clearAttachmentsLayout[e].clearType], clearAttachmentsLayout[e].layout>>)]
    \o <<Call("render", <<"_rtt">>)>>

\* The execute function recordFrameGraph gives to its pass: the calls it makes
\* on the context. depthEnabled is the value recordFrameGraph computed; the
\* flags and the layouts are the task's fields when the function runs.
ExecuteFunc(pass) ==
    <<Call("setDepthStates", <<depthTest /\ pass.depthEnabled, depthWrite /\ pass.depthEnabled>>)>>
    \o [e \in DOMAIN clearAttachmentsLayout |->
           Call("clearColorAttachments",
                <<clearColors[clearAttachmentsLayout[e].clearType], clearAttachmentsLayout[e].layout>>)]
    \o <<Call("bindAttachments", <<allAttachmentsLayout>>), Call("render", <<"_rtt">>)>>

\* FrameGraph.execute: the context calls of the geometry renderer passes that
\* are executed, from position i on.
RECURSIVE ExecuteFuncs(_, _)
ExecuteFuncs(i, calls) ==
    IF i > Len(fgPasses)
    THEN calls
    ELSE ExecuteFuncs(i + 1,
            IF fgPasses[i].name = TaskName /\ IsReady(TaskName)
            THEN calls \o ExecuteFunc(fgPasses[i])
            ELSE calls)

\* task.depthTest = b
SetDepthTest ==
    /\ depthTest' = ~depthTest
    /\ lastOp' = "set"
    /\ UNCHANGED <<taskFields, taskPrivate, frameGraph, callLog, graphVars, configuration, rttDisposed, rttReady, notReady, frameLog, depthWrite, contextCalls, drawVars, watcherVars>>

\* task.depthWrite = b
SetDepthWrite ==
    /\ depthWrite' = ~depthWrite
    /\ lastOp' = "set"
    /\ UNCHANGED <<taskFields, taskPrivate, frameGraph, callLog, graphVars, configuration, rttDisposed, rttReady, notReady, frameLog, depthTest, contextCalls, drawVars, watcherVars>>

\* task.disposeFrameGraph(): the configuration is deleted, the render target disposed.
DisposeFrameGraph ==
    /\ configuration' = Undefined
    /\ rttDisposed' = TRUE
    /\ lastOp' = "disposeFrameGraph"
    /\ UNCHANGED <<taskFields, taskPrivate, frameGraph, callLog, graphVars, rttReady, notReady, frameLog, executeVars, drawVars, watcherVars>>

\* The render target's resources become ready, or stop being ready.
SetRttReady ==
    /\ rttReady' = ~rttReady
    /\ lastOp' = "ready"
    /\ UNCHANGED <<taskFields, taskPrivate, frameGraph, callLog, graphVars, configuration, rttDisposed, notReady, frameLog, executeVars, drawVars, watcherVars>>

\* The resources of another task become ready, or stop being ready.
SetTaskReady ==
    \E t \in OtherTasks :
        /\ notReady' = IF t \in notReady THEN notReady \ {t} ELSE notReady \cup {t}
        /\ lastOp' = "ready"
        /\ UNCHANGED <<taskFields, taskPrivate, frameGraph, callLog, graphVars, configuration, rttDisposed, rttReady, frameLog, executeVars, drawVars, watcherVars>>

\* FrameGraph.build: the tasks the blocks added record their passes, in
\* addTask order, one pass per task.
RecordTasks ==
    /\ fgTasks # <<>>
    /\ \A i \in DOMAIN fgTasks : PassesOf(fgTasks[i]) = {}
    /\ fgPasses' = fgPasses \o [i \in DOMAIN fgTasks |-> [name |-> fgTasks[i]]]
    /\ lastOp' = "recordTasks"
    /\ UNCHANGED <<taskFields, taskPrivate, fgTextures, screen, callLog, graphVars, runtimeVars, drawVars, watcherVars>>

\* FrameGraph.execute(), once per frame.
ExecuteFrame ==
    /\ frameLog' = ExecutePasses(1, <<>>)
    /\ contextCalls' = ExecuteFuncs(1, <<>>)
    /\ lastOp' = "executeFrame"
    /\ UNCHANGED <<taskFields, taskPrivate, frameGraph, callLog, graphVars, configuration, rttDisposed, rttReady, notReady, depthTest, depthWrite, drawVars, watcherVars>>

\* The geometry renderer task and the tasks of a built node graph, recorded,
\* executed frame after frame, disposed, and recorded again after a clear.
InitFrame ==
    /\ TaskInitWith(<<Description(5)>>, <<"objects">>)
    /\ GraphInitWith(TeleportWiring)

NextFrame ==
    \/ Build
    \/ RecordFrameGraph
    \/ RecordTasks
    \/ SetRttReady
    \/ SetTaskReady
    \/ ExecuteFrame
    \/ DisposeFrameGraph
    \/ ClearFrameGraph

SpecFrame == InitFrame /\ [][NextFrame]_vars

\* The frames keep coming.
SpecFrameFair == SpecFrame /\ WF_vars(ExecuteFrame)

\* The task with every list of known descriptions, recorded, and its pass
\* executed frame after frame.
InitExecute == InitLayout

NextExecute ==
    \/ RecordFrameGraph
    \/ ClearFrameGraph
    \/ SetRttReady
    \/ ExecuteFrame

SpecExecute == InitExecute /\ [][NextExecute]_vars

\* The task recorded with and without a depth texture, and its pass executed
\* with every value of the depth flags.
InitDepth == InitResize

NextDepth ==
    \/ SetDepthTexture
    \/ SetDepthTest
    \/ SetDepthWrite
    \/ RecordFrameGraph
    \/ ClearFrameGraph
    \/ SetRttReady
    \/ ExecuteFrame

SpecDepth == InitDepth /\ [][NextDepth]_vars

(***************************************************************************)
(* Properties of the node graph                                            *)
(***************************************************************************)

\* The log entry of block b's own build step.
StepOf(b) == [op |-> "step", block |-> b, by |-> b]

\* The log entry of block `by` calling b.build(state).
RequestOf(b, by) == [op |-> "build", block |-> b, by |-> by]

\* How many times an entry occurs in the log of the last build.
Occurrences(e) == Cardinality({i \in DOMAIN buildLog : buildLog[i] = e})

\* How many bloom tasks a task list holds.
BloomTasks(tasks) == Cardinality({i \in DOMAIN tasks : tasks[i] = "bloom"})

\* A build that follows a build, nothing edited in between.
Rebuild == lastOp = "build" /\ lastOp' = "build"

\* C5: a build that directly follows a build of the same graph leaves the task
\* list and every resolved output value as the first build left them, and a
\* graph whose bloom block was built holds exactly one bloom task after it.
C5_RebuildReproduces ==
    [][Rebuild =>
          /\ fgTasks' = fgTasks
          /\ value' = value
          /\ bloomTask' = bloomTask
          /\ (buildError' = NoBuildError /\ Occurrences(StepOf("Bloom"))' = 1) => BloomTasks(fgTasks') = 1]_vars

\* The kind of the bloom output follows exactly one input.
BloomKindFollows(p) == Kind("Bloom") = ResolvedInputKind(p)

\* C6: the bloom output's kind is the kind of the source input when only the
\* source is connected, and the kind of the destination input when both are;
\* with a texture on the source and the back buffer on the destination it is
\* the back buffer kind, not the texture kind.
C6_BasedOnInput ==
    /\ (connected[<<"Bloom", "source">>] # Null /\ connected[<<"Bloom", "destination">>] = Null)
          => BloomKindFollows(<<"Bloom", "source">>)
    /\ (connected[<<"Bloom", "source">>] # Null /\ connected[<<"Bloom", "destination">>] # Null)
          => BloomKindFollows(<<"Bloom", "destination">>)
    /\ (connected[<<"Bloom", "source">>] = "In1" /\ connected[<<"Bloom", "destination">>] = "In2")
          => Kind("Bloom") = "TextureBackBuffer"
    /\ (connected[<<"Bloom", "source">>] = "In1" /\ connected[<<"Bloom", "destination">>] = Null)
          => Kind("Bloom") = "Texture"

\* C6 witness: both inputs connected, to points of different kinds.
C6_Witness ==
    /\ connected[<<"Bloom", "source">>] = "In1"
    /\ connected[<<"Bloom", "destination">>] = "In2"
    /\ Kind("Bloom") = "TextureBackBuffer"
    /\ ResolvedInputKind(<<"Bloom", "source">>) = "Texture"

\* A receiver the last build went through, the build having succeeded.
BuiltReceiver(r) == lastOp = "build" /\ buildError = NoBuildError /\ Occurrences(StepOf(r)) > 0

\* C7: after a build, a built receiver attached to a source holds the value of
\* the point wired to the source's input, and a built receiver attached to no
\* source holds no value.
C7_TeleportRoundTrip ==
    \A r \in TeleportOuts :
        BuiltReceiver(r) =>
            IF entryPoint[r] # Null
            THEN value[r] = value[connected[<<entryPoint[r], "input">>]]
            ELSE value[r] = NoValue

\* The half of C7 about an attached receiver whose source is fed by a block
\* that does not depend on the receiver.
TeleportForwardsInput ==
    \A r \in TeleportOuts :
        (BuiltReceiver(r) /\ entryPoint[r] # Null /\ connected[<<entryPoint[r], "input">>] \in InputBlocks)
            => value[r] = value[connected[<<entryPoint[r], "input">>]]

\* The half of C7 about a detached receiver.
DetachedReceiverUnresolved ==
    \A r \in TeleportOuts : (BuiltReceiver(r) /\ entryPoint[r] = Null) => value[r] = NoValue

\* C8: in a build, a built receiver's source was asked to build by the
\* receiver before the receiver's own build step, and the source's build step
\* ran exactly once however many receivers are attached to it.
C8_SourceBuiltFirstAndOnce ==
    lastOp = "build" =>
        /\ \A r \in TeleportOuts :
              (entryPoint[r] # Null /\ Occurrences(StepOf(r)) > 0) =>
                  /\ \E i, j \in DOMAIN buildLog :
                        /\ i < j
                        /\ buildLog[i] = RequestOf(entryPoint[r], r)
                        /\ buildLog[j] = StepOf(r)
                  /\ Occurrences(StepOf(entryPoint[r])) = 1
        /\ \A s \in TeleportIns : Occurrences(StepOf(s)) <= 1

\* C8 witness: a build through two receivers attached to the same source.
C8_Witness ==
    /\ lastOp = "build"
    /\ buildError = NoBuildError
    /\ \A r \in TeleportOuts : entryPoint[r] = "TIn" /\ Occurrences(StepOf(r)) = 1
    /\ Occurrences(RequestOf("TIn", "TOutA")) = 1
    /\ Occurrences(RequestOf("TIn", "TOutB")) = 1
    /\ Occurrences(StepOf("TIn")) = 1

\* The entry of block b in the document.
DocumentEntry(b) == document[CHOOSE i \in DOMAIN document : document[i].block = b]

\* C9: a serialized teleport out block holds the uniqueId of its entry point
\* and nothing else of it; after a parse the block has recorded that id, it had
\* no entry point when the first pass ended, and it is attached to the block
\* rebuilt from the entry with that id, wherever the two entries are in the
\* array.
C9_ForwardReferenceResolved ==
    /\ lastOp = "serialize" =>
          \A r \in TeleportOuts :
              DocumentEntry(r).entryPoint =
                  (IF entryPoint[r] = Null THEN NoUniqueId ELSE uniqueId[entryPoint[r]])
    /\ lastOp = "parse" =>
          \A r \in TeleportOuts :
              /\ tempEntryPointUniqueId[r] = DocumentEntry(r).entryPoint
              /\ firstPassEntryPoint[r] = Null
              /\ IF DocumentEntry(r).entryPoint = NoUniqueId
                 THEN entryPoint[r] = Null
                 ELSE /\ entryPoint[r] # Null
                      /\ DocumentEntry(entryPoint[r]).id = DocumentEntry(r).entryPoint
                      /\ uniqueId[entryPoint[r]] # DocumentEntry(r).entryPoint
                      /\ Cardinality({i \in DOMAIN endpoints[entryPoint[r]] : endpoints[entryPoint[r]][i] = r}) = 1

\* C9 witness: a parsed document that lists a receiver before its source.
C9_Witness ==
    /\ lastOp = "parse"
    /\ \E i, j \in DOMAIN document :
          /\ i < j
          /\ document[i].block = "TOutA"
          /\ document[j].block = "TIn"
          /\ document[i].entryPoint = document[j].id
    /\ entryPoint["TOutA"] = "TIn"

\* The last build reached the bloom block.
BloomReached == \E by \in Blocks : Occurrences(RequestOf("Bloom", by)) > 0

\* A failed build names a required input that is not connected; one that
\* reached the bloom block with its source unconnected names that input and
\* never ran the bloom block's build step.
BuildErrorNamesInput ==
    lastOp = "build" =>
        /\ buildError # NoBuildError =>
              /\ <<buildError.block, buildError.input>> \in InputPoints
              /\ connected[<<buildError.block, buildError.input>>] = Null
              /\ ~IsOptional(<<buildError.block, buildError.input>>)
        /\ (BloomReached /\ connected[<<"Bloom", "source">>] = Null) =>
              /\ buildError = [block |-> "Bloom", input |-> "source"]
              /\ Occurrences(StepOf("Bloom")) = 0

\* A failed build leaves the frame graph's task list as it was.
FailedBuildCommitsNothing == (lastOp' = "build" /\ buildError' # NoBuildError) => fgTasks' = fgTasks

\* C11: a build that meets the bloom block with its required source input
\* unconnected fails with an error naming the block and the input, and the
\* failed build registers no task: the frame graph's task list is unchanged.
C11_UnconnectedRequiredInput == []BuildErrorNamesInput /\ [][FailedBuildCommitsNothing]_vars

\* C11 witness: a failed build of the bloom block after a successful one,
\* whose tasks are still those of the frame graph.
C11_Witness ==
    /\ lastOp = "build"
    /\ buildError = [block |-> "Bloom", input |-> "source"]
    /\ connected[<<"Bloom", "destination">>] # Null
    /\ fgTasks = <<"bloom", "output">>

\* The kinds the bloom inputs accept, written out.
ClaimedKinds(p) ==
    IF p = <<"Bloom", "source">> THEN {"Texture", "TextureViewDepth"}
    ELSE IF p = <<"Bloom", "destination">> THEN {"Texture", "TextureViewDepth", "TextureBackBuffer"}
    ELSE AcceptedKinds(p)

\* A step connects an input to an output only if the output's resolved kind,
\* before the step, is one the input accepts; a refused connectTo changes no
\* connection.
ConnectChecksKind ==
    /\ \A w \in Wires :
          (connected'[w[1]] = w[2] /\ connected[w[1]] # w[2]) =>
              /\ Kind(w[2]) \in AcceptedKinds(w[1])
              /\ Kind(w[2]) \in ClaimedKinds(w[1])
    /\ lastOp' = "connectTo refused" =>
          /\ connected' = connected
          /\ \E w \in Wires : Kind(w[2]) \notin AcceptedKinds(w[1])

\* The back buffer is never connected to the bloom source.
BackBufferNotOnSource == connected[<<"Bloom", "source">>] # "In2"

\* C15: connectTo connects only when the output's kind, resolved through
\* BasedOnInput, is accepted by the input, and a refused connectTo leaves the
\* connections as they were; the bloom source takes Texture and the
\* all-but-back-buffer kinds and refuses the back buffer, the bloom
\* destination takes the back buffer too.
C15_ConnectToTypeChecked == []BackBufferNotOnSource /\ [][ConnectChecksKind]_vars

\* C15 witness: the back buffer is on the bloom destination and was just
\* refused by the bloom source, which stays unconnected.
C15_Witness ==
    /\ lastOp = "connectTo refused"
    /\ connected[<<"Bloom", "destination">>] = "In2"
    /\ connected[<<"Bloom", "source">>] = Null
    /\ Kind("In2") = "TextureBackBuffer"

(***************************************************************************)
(* Further properties of the geometry renderer task                        *)
(***************************************************************************)

\* The text of the error for a task with nothing to record.
NothingToRecordText == "object list and at least one geometry texture description must be provided"

\* A recordFrameGraph call on a task without descriptions or without object
\* list throws the error naming the task and touches nothing of the frame graph.
RecordRefusesEmptyTask ==
    (lastOp' = "recordFrameGraph" /\ (Len(textureDescriptions) = 0 \/ objectList = Undefined)) =>
        /\ thrown' = [task |-> TaskName, text |-> NothingToRecordText, args |-> <<>>]
        /\ fgTextures' = fgTextures
        /\ fgPasses' = fgPasses
        /\ descLookups' = {}
        /\ taskPrivate' = taskPrivate

\* C16: recordFrameGraph throws a configuration error naming the task when
\* textureDescriptions is empty or objectList is undefined, with no texture
\* created and no render pass added.
C16_EmptyTaskRejected == [][RecordRefusesEmptyTask]_vars

\* C16 witness: the error thrown for a task that has descriptions of known
\* types and no object list.
C16_Witness ==
    /\ lastOp = "recordFrameGraph"
    /\ thrown.text = NothingToRecordText
    /\ thrown.task = TaskName
    /\ Len(textureDescriptions) > 0
    /\ UnknownPositions = {}
    /\ objectList = Undefined
    /\ FrameGraphIsClear

\* A recordFrameGraph call on a task with a description of unknown type throws
\* the error naming the task and the first such type, creates no texture, adds
\* no pass and computes no layout.
RecordRefusesUnknownType ==
    (lastOp' = "recordFrameGraph" /\ ~NothingToRecord /\ UnknownPositions # {}) =>
        /\ thrown'.task = TaskName
        /\ thrown'.text = "unknown texture type"
        /\ \E i \in UnknownPositions :
              /\ thrown'.args = <<textureDescriptions[i].type>>
              /\ \A j \in 1..(i - 1) : FindIndex(textureDescriptions[j].type) # 0
        /\ fgTextures' = fgTextures
        /\ fgPasses' = fgPasses
        /\ taskPrivate' = taskPrivate

\* A recordFrameGraph call that creates a texture or writes the layouts found
\* every description's type in the catalogue.
LayoutsReadKnownTypesOnly ==
    (lastOp' = "recordFrameGraph" /\ (fgTextures' # fgTextures \/ taskPrivate' # taskPrivate)) =>
        \A i \in DOMAIN textureDescriptions : FindIndex(textureDescriptions[i].type) \in DOMAIN GeometryTextureDescriptions

\* C17: recordFrameGraph throws a configuration error naming the task and the
\* offending type when a description's type is not in the catalogue; every
\* description is checked before the texture is created and before the clear
\* layouts are computed, which therefore only read catalogue entries that exist.
C17_UnknownTypeRejected == [][RecordRefusesUnknownType /\ LayoutsReadKnownTypesOnly]_vars

\* C17 witness: the error thrown for a list whose second description has an
\* unknown type.
C17_Witness ==
    /\ lastOp = "recordFrameGraph"
    /\ thrown = [task |-> TaskName, text |-> "unknown texture type", args |-> <<99>>]
    /\ Len(textureDescriptions) >= 2
    /\ textureDescriptions[1].type = 5
    /\ textureDescriptions[2].type = 99
    /\ FrameGraphIsClear

(***************************************************************************)
(* Properties of the teleport linkage                                      *)
(***************************************************************************)

\* Both sides of the linkage agree: a receiver's entry point is the source
\* that lists it, and a source lists a receiver once.
LinkageConsistent ==
    \A r \in TeleportOuts, s \in TeleportIns :
        /\ entryPoint[r] = s <=> r \in Range(endpoints[s])
        /\ Cardinality({i \in DOMAIN endpoints[s] : endpoints[s][i] = r}) <= 1

\* What detach() of receiver r does: nothing when r has no source, otherwise r
\* loses its entry point and leaves the source's endpoints, the other
\* receivers staying where they are.
DetachStep(r) ==
    lastOp' = DetachOp(r) =>
        IF entryPoint[r] = Null
        THEN entryPoint' = entryPoint /\ endpoints' = endpoints
        ELSE /\ entryPoint' = [entryPoint EXCEPT ![r] = Null]
             /\ endpoints' = [s \in TeleportIns |-> SelectSeq(endpoints[s], LAMBDA e : e # r)]

\* C19: after any sequence of attach, detach and parse the linkage is
\* consistent on both sides; detach() of an attached receiver clears its
\* entry point and removes it from the source's endpoints, detach() of a
\* receiver with no source changes nothing.
C19_LinkageConsistent == []LinkageConsistent /\ [][\A r \in TeleportOuts : DetachStep(r)]_vars

\* C19 witness: the first of two attached receivers was just detached.
C19_Witness ==
    /\ lastOp = DetachOp("TOutA")
    /\ entryPoint = [r \in TeleportOuts |-> IF r = "TOutB" THEN "TIn" ELSE Null]
    /\ endpoints["TIn"] = <<"TOutB">>
    /\ tempEntryPointUniqueId["TOutA"] # NoUniqueId

\* Receiver r was asked to build in the last build and has no source.
BuiltWithoutSource(r) ==
    /\ lastOp = "build"
    /\ entryPoint[r] = Null
    /\ \E by \in Blocks : Occurrences(RequestOf(r, by)) > 0

\* The build of a receiver without source completes its build step, is not
\* what the build's error names, asks no block to build and adds no task.
ReceiverBuildHarmless ==
    \A r \in TeleportOuts :
        BuiltWithoutSource(r) =>
            /\ Occurrences(StepOf(r)) = 1
            /\ buildError.block # r
            /\ \A b \in Blocks : Occurrences(RequestOf(b, r)) = 0
            /\ Range(fgTasks) \subseteq {"bloom", "output"}

\* C20: the build of a teleport receiver without source does not throw,
\* builds no other block on the receiver's behalf, registers no task, and
\* the receiver's output value is unresolved after it.
C20_UnattachedReceiverBuild ==
    /\ ReceiverBuildHarmless
    /\ \A r \in TeleportOuts : BuiltWithoutSource(r) => value[r] = NoValue

\* A receiver without source built by a build that succeeded.
UnattachedReceiverBuilt ==
    /\ buildError = NoBuildError
    /\ BuiltWithoutSource("TOutA")
    /\ connected[<<"Bloom", "source">>] = "TOutA"
    /\ bloomTask.sourceTexture = value["TOutA"]

\* The receiver a clone step cloned.
Cloned(r) == lastOp' = "clone" /\ cloneEntryPoint[r] = NoClone /\ cloneEntryPoint'[r] # NoClone

\* What clone() of receiver r leaves: the copy has the entry point of r and
\* is among that source's endpoints exactly once, r and the other receivers
\* keep their entry points and their places, and a receiver without source
\* gives a copy without source and leaves every source's endpoints alone.
CloneStep(r) ==
    Cloned(r) =>
        /\ cloneEntryPoint'[r] = entryPoint[r]
        /\ entryPoint' = entryPoint
        /\ IF entryPoint[r] = Null
           THEN endpoints' = endpoints
           ELSE /\ endpoints' = [endpoints EXCEPT ![entryPoint[r]] = Append(@, CloneOf(r))]
                /\ r \in Range(endpoints'[entryPoint[r]])
                /\ CloneOf(r) \notin Range(endpoints[entryPoint[r]])

\* C18: clone() of a receiver attached to a source returns a receiver attached
\* to that source and leaves the original attached to it; clone() of a
\* receiver without source returns a receiver without source.
C18_CloneKeepsSource == [][\A r \in TeleportOuts : CloneStep(r)]_vars

\* C18 witness: an attached receiver was just cloned, both are endpoints of
\* the source, and the clone of the other receiver has no source.
C18_Witness ==
    /\ lastOp = "clone"
    /\ entryPoint["TOutA"] = "TIn"
    /\ cloneEntryPoint["TOutA"] = "TIn"
    /\ endpoints["TIn"] = <<"TOutA", "TOutA.clone">>
    /\ entryPoint["TOutB"] = Null
    /\ cloneEntryPoint["TOutB"] = Null

(***************************************************************************)
(* Properties of the frames                                                *)
(***************************************************************************)

\* The tasks that can own a pass.
Tasks == {TaskName} \cup OtherTasks

\* The resources of a task are ready: for the geometry renderer task, its
\* render target is ready for rendering.
ReadyNow(task) == IF task = TaskName THEN rttReady ELSE task \notin notReady

\* The last frame ran the execute function of a pass of the task.
ExecutedLast(task) == \E i \in DOMAIN frameLog : frameLog[i].task = task /\ frameLog[i].op = "execute"

\* The last frame skipped a pass of the task.
SkippedLast(task) == \E i \in DOMAIN frameLog : frameLog[i].task = task /\ frameLog[i].op = "skip"

\* A frame runs the execute function of the passes whose task is ready and of
\* no other, throws nothing and keeps every pass for the next frame.
FrameSkipsNotReady ==
    lastOp' = "executeFrame" =>
        /\ \A i \in DOMAIN frameLog' : frameLog'[i].op = "execute" <=> ReadyNow(frameLog'[i].task)
        /\ \A i \in DOMAIN frameLog' : frameLog'[i].op \in {"execute", "skip"}
        /\ thrown' = thrown
        /\ fgPasses' = fgPasses

\* C12: in every frame a pass's execute function runs only if its task's
\* isReadyFrameGraph() is true; a pass of a task that is not ready is skipped
\* without error and stays registered, and a task that is ready from some
\* frame on, its pass registered, has the pass executed in the frames after.
C12_NotReadySkippedAndRetried ==
    /\ [][FrameSkipsNotReady]_vars
    /\ \A t \in Tasks : <>[](ReadyNow(t) /\ PassesOf(t) # {}) => <>[]ExecutedLast(t)

\* C12 witness: the geometry pass, skipped in an earlier frame, was executed
\* by the last one, which skipped the bloom pass.
C12_Witness ==
    /\ lastOp = "executeFrame"
    /\ rttReady
    /\ ExecutedLast(TaskName)
    /\ SkippedLast("bloom")
    /\ "bloom" \in notReady

\* The last frame went through the passes in registration order, each once.
FrameInRegistrationOrder ==
    lastOp = "executeFrame" =>
        /\ Len(frameLog) = Len(fgPasses)
        /\ \A i \in DOMAIN frameLog : frameLog[i].pass = i /\ frameLog[i].task = fgPasses[i].name

\* Registration only appends: the passes already registered keep their
\* positions, and the tasks of the node graph register in addTask order.
RegistrationAppends ==
    /\ lastOp' = "recordFrameGraph" => SubSeq(fgPasses', 1, Len(fgPasses)) = fgPasses
    /\ lastOp' = "recordTasks" =>
          /\ SubSeq(fgPasses', 1, Len(fgPasses)) = fgPasses
          /\ [i \in DOMAIN fgTasks |-> fgPasses'[Len(fgPasses) + i].name] = fgTasks

\* C13: every frame goes through the render passes in the order they were
\* registered by addRenderPass and by the tasks in addTask order, one pass
\* after the other, each exactly once.
C13_PassesInRegistrationOrder == []FrameInRegistrationOrder /\ [][RegistrationAppends]_vars

\* C13 witness: a frame over the geometry pass followed by the passes of the
\* bloom and output tasks.
C13_Witness ==
    /\ lastOp = "executeFrame"
    /\ [i \in DOMAIN fgPasses |-> fgPasses[i].name] = <<TaskName, "bloom", "output">>
    /\ [i \in DOMAIN frameLog |-> frameLog[i].task] = <<TaskName, "bloom", "output">>
    /\ \A i \in DOMAIN frameLog : frameLog[i].op = "execute"

\* Once disposeFrameGraph was called the task stays disposed, a later
\* recordFrameGraph touches neither the frame graph nor the task's layouts,
\* and no frame runs the execute function of its pass.
DisposedIsTerminal ==
    rttDisposed =>
        /\ rttDisposed'
        /\ configuration' = Undefined
        /\ lastOp' = "recordFrameGraph" =>
              /\ fgTextures' = fgTextures
              /\ fgPasses' = fgPasses
              /\ taskPrivate' = taskPrivate
        /\ lastOp' = "executeFrame" =>
              \A i \in DOMAIN frameLog' : frameLog'[i].task = TaskName => frameLog'[i].op = "skip"

\* C14: disposeFrameGraph can be called in any state of the task, and a
\* disposed task never again records or executes a pass: no later
\* recordFrameGraph and no later frame uses its deleted configuration or its
\* disposed render target.
C14_DisposedIsTerminal == [][DisposedIsTerminal]_vars

\* A disposed task never adds a render pass.
DisposedAddsNoPass == [][(rttDisposed /\ lastOp' = "recordFrameGraph") => fgPasses' = fgPasses]_vars

\* A recordFrameGraph of a disposed task creates no texture.
DisposedCreatesNoTexture == [][(rttDisposed /\ lastOp' = "recordFrameGraph") => fgTextures' = fgTextures]_vars

\* No frame executes the pass of a disposed task.
DisposedNeverExecuted ==
    [][(rttDisposed /\ lastOp' = "executeFrame") =>
          \A i \in DOMAIN frameLog' : frameLog'[i].task = TaskName => frameLog'[i].op = "skip"]_vars

(***************************************************************************)
(* Properties of a re-recorded geometry renderer task                      *)
(***************************************************************************)

\* The catalogue clear kind of description i.
ClearKindOf(i) == GeometryTextureDescriptions[FindIndex(textureDescriptions[i].type)].clearType

\* The last step was a recordFrameGraph that returned.
Recorded == lastOp = "recordFrameGraph" /\ thrown = NoError

\* C21: after every successful recordFrameGraph, also one that follows a
\* change of textureDescriptions, the task holds one layout for each clear
\* kind of the current descriptions and none for another kind; each layout has
\* N entries, entry i set exactly when description i is of the layout's kind,
\* and the all-attachments layout has N entries, all set.
C21_LayoutsOfCurrentDescriptions ==
    Recorded =>
        LET n == Len(textureDescriptions)
        IN /\ {clearAttachmentsLayout[e].clearType : e \in DOMAIN clearAttachmentsLayout}
                 = {ClearKindOf(i) : i \in 1..n}
           /\ \A e, f \in DOMAIN clearAttachmentsLayout :
                 clearAttachmentsLayout[e].clearType = clearAttachmentsLayout[f].clearType => e = f
           /\ \A e \in DOMAIN clearAttachmentsLayout :
                 /\ Len(clearAttachmentsLayout[e].layout) = n
                 /\ \A i \in 1..n :
                       clearAttachmentsLayout[e].layout[i] =
                           (IF ClearKindOf(i) = clearAttachmentsLayout[e].clearType THEN i ELSE 0)
           /\ Len(allAttachmentsLayout) = n
           /\ \A i \in 1..n : allAttachmentsLayout[i] = i

\* C21 witness: a successful record of descriptions without the view depth
\* plane, by a task that an earlier record had registered that plane for (its
\* define is still set).
C21_Witness ==
    /\ Recorded
    /\ Len(textureDescriptions) >= 2
    /\ \A i \in DOMAIN textureDescriptions : textureDescriptions[i].type # 5
    /\ configuration # Undefined
    /\ configuration[1].defines[FindIndex(5)] # 0

\* C26: after every successful recordFrameGraph, also one that follows a
\* change of textureDescriptions, the configuration gives each catalogue plane
\* of the current descriptions its attachment index, and no index to a plane
\* that is not among them.
C26_ConfigurationOfCurrentDescriptions ==
    Recorded =>
        \A k \in DOMAIN GeometryTextureDescriptions :
            IF \E i \in DOMAIN textureDescriptions : FindIndex(textureDescriptions[i].type) = k
            THEN /\ configuration[1].defines[k] \in DOMAIN textureDescriptions
                 /\ FindIndex(textureDescriptions[configuration[1].defines[k]].type) = k
            ELSE configuration[1].defines[k] = 0

\* The planes of the current descriptions have their attachment index after a
\* successful record.
PresentPlanesRegistered ==
    Recorded =>
        \A i \in DOMAIN textureDescriptions :
            LET k == FindIndex(textureDescriptions[i].type)
            IN /\ configuration[1].defines[k] \in DOMAIN textureDescriptions
               /\ FindIndex(textureDescriptions[configuration[1].defines[k]].type) = k

(***************************************************************************)
(* Properties of the geometry renderer pass                                *)
(***************************************************************************)

\* The pass the geometry renderer task registered.
GeometryPass == fgPasses[CHOOSE i \in DOMAIN fgPasses : fgPasses[i].name = TaskName]

\* The last step was a frame that ran the geometry renderer's execute function.
GeometryExecuted == lastOp = "executeFrame" /\ contextCalls # <<>>

\* The clear kind of each attachment of the pass's render target, from the
\* labels the target was created with.
AttachmentKinds ==
    LET labels == EntryOf(fgTextures, GeometryPass.renderTarget).creationOptions.options.labels
    IN [i \in DOMAIN labels |->
           GeometryTextureDescriptions[
               CHOOSE k \in DOMAIN GeometryTextureDescriptions :
                   GeometryTextureDescriptions[k].name = labels[i]].clearType]

\* The positions of the clearColorAttachments calls of the last frame.
ClearCalls == {c \in DOMAIN contextCalls : contextCalls[c].call = "clearColorAttachments"}

\* C22: an execution of the geometry renderer pass makes one
\* clearColorAttachments call per clear kind of its attachments, with the
\* colour and the layout of that kind, so that every attachment is cleared
\* exactly once; the calls are setDepthStates, then the clears, then
\* bindAttachments of all the attachments, then render.
C22_OneClearPerKindInOrder ==
    GeometryExecuted =>
        LET n == Len(AttachmentKinds)
            last == Len(contextCalls)
        IN /\ last = Cardinality(Range(AttachmentKinds)) + 3
           /\ contextCalls[1].call = "setDepthStates"
           /\ ClearCalls = 2..(last - 2)
           /\ contextCalls[last - 1] = Call("bindAttachments", <<[i \in 1..n |-> i]>>)
           /\ contextCalls[last].call = "render"
           /\ \A kind \in Range(AttachmentKinds) :
                 \E c \in ClearCalls :
                     /\ contextCalls[c].args =
                            <<clearColors[kind], [i \in 1..n |-> IF AttachmentKinds[i] = kind THEN i ELSE 0]>>
                     /\ \A d \in ClearCalls : contextCalls[d].args[1] = clearColors[kind] => d = c
           /\ \A i \in 1..n :
                 Cardinality({c \in ClearCalls : contextCalls[c].args[2][i] # 0}) = 1

\* C22 witness: a pass with attachments of the three clear kinds was executed.
C22_Witness ==
    /\ GeometryExecuted
    /\ Cardinality(ClearCalls) = 3
    /\ Len(AttachmentKinds) = 3

\* C27: the pass has a depth target exactly when the task was recorded with a
\* depth texture, and an execution sets the depth test to depthTest and the
\* depth write to depthWrite, as they are when the pass runs, when the pass
\* has a depth target, and disables both when it has none.
C27_DepthStatesFollowDepthTexture ==
    /\ Recorded => (GeometryPass.renderTargetDepth # Undefined <=> depthTexture # Undefined)
    /\ GeometryExecuted =>
          LET bound == GeometryPass.renderTargetDepth # Undefined
          IN contextCalls[1] = Call("setDepthStates", <<depthTest /\ bound, depthWrite /\ bound>>)

\* C27 witness: a pass without depth target was executed while the task's
\* depthTest was set, and a pass with a depth target while depthWrite was not.
C27_Witness ==
    /\ GeometryExecuted
    /\ GeometryPass.renderTargetDepth = Undefined
    /\ depthTest
    /\ ~depthWrite
    /\ contextCalls[1].args = <<FALSE, FALSE>>

\* A pass with a depth target executed with depthTest set and depthWrite not.
DepthBoundExecuted ==
    /\ GeometryExecuted
    /\ GeometryPass.renderTargetDepth # Undefined
    /\ contextCalls[1].args = <<TRUE, FALSE>>

\* C25: after a successful recordFrameGraph every output reference of the
\* task (output, outputDepth, the ten geometry references) names an output
\* registered on the task's pass, and every registered output is the
\* multi-render-target handle at mip level 0.
C25_OutputReferencesResolve ==
    Recorded =>
        /\ \A r \in DOMAIN OutputReferences :
              HandlesOfReference(fgPasses, TaskName, OutputReferences[r]) # {}
        /\ \A o \in DOMAIN GeometryPass.outputs :
              /\ GeometryPass.outputs[o].handle = GeometryPass.renderTarget
              /\ GeometryPass.outputs[o].mipLevel = 0

\* After a successful recordFrameGraph the ten geometry references resolve to
\* the pass's render target, and every registered output is that handle at
\* mip level 0.
GeometryReferencesResolve ==
    Recorded =>
        /\ \A r \in DOMAIN OutputNames :
              HandlesOfReference(fgPasses, TaskName, OutputNames[r]) = {GeometryPass.renderTarget}
        /\ \A o \in DOMAIN GeometryPass.outputs :
              /\ GeometryPass.outputs[o].handle = GeometryPass.renderTarget
              /\ GeometryPass.outputs[o].mipLevel = 0

(***************************************************************************)
(* Properties of the bloom block's build step                              *)
(***************************************************************************)

\* The last step was a graph build that ran the bloom block's build step.
BloomBuilt == lastOp = "build" /\ Occurrences(StepOf("Bloom")) > 0

\* C23: after every build of the bloom block the task's destinationTexture is
\* the value of the point connected to the destination input when the input is
\* connected, and is unset when it is not.
C23_DestinationFollowsConnection ==
    BloomBuilt =>
        bloomTask.destinationTexture =
            (IF connected[<<"Bloom", "destination">>] # Null
             THEN value[connected[<<"Bloom", "destination">>]]
             ELSE NoValue)

\* The half of C23 about a connected destination input.
ConnectedDestinationIsRead ==
    (BloomBuilt /\ connected[<<"Bloom", "destination">>] # Null)
        => bloomTask.destinationTexture = value[connected[<<"Bloom", "destination">>]]

\* The position of the first occurrence of an entry in the log of the last build.
PositionOf(e) == CHOOSE i \in DOMAIN buildLog : buildLog[i] = e /\ \A j \in 1..(i - 1) : buildLog[j] # e

\* An entry occurs in the log of the last build before the bloom block's build step.
BeforeBloomStep(e) == Occurrences(e) > 0 /\ PositionOf(e) < PositionOf(StepOf("Bloom"))

\* The field of the bloom task that the build step writes from an input.
BloomTaskField(input) == IF input = "source" THEN bloomTask.sourceTexture ELSE bloomTask.destinationTexture

\* The build step of the block owning the point connected to each connected
\* bloom input ran, in the same build, before the bloom block's build step.
OwnerStepPrecedesRead ==
    BloomBuilt =>
        \A i \in DOMAIN InputsOf("Bloom") :
            connected[<<"Bloom", InputsOf("Bloom")[i]>>] # Null
                => BeforeBloomStep(StepOf(connected[<<"Bloom", InputsOf("Bloom")[i]>>]))

\* The value the bloom block's build step read from a connected input was
\* written in the same build before the read: by the owner's build step, or,
\* for a teleport receiver, by the build step of the source it is attached to.
ReadValueIsOfThisBuild ==
    BloomBuilt =>
        \A i \in DOMAIN InputsOf("Bloom") :
            LET o == connected[<<"Bloom", InputsOf("Bloom")[i]>>]
            IN (o \in TeleportOuts /\ BloomTaskField(InputsOf("Bloom")[i]) # NoValue)
                  => (entryPoint[o] # Null /\ BeforeBloomStep(StepOf(entryPoint[o])))

\* C24: when the bloom block's build step reads the value of the point
\* connected to one of its inputs, the block owning that point has completed
\* its build step in the same build, and the value read is one resolved by
\* this build, not one left by an earlier build.
C24_ReadsValuesOfThisBuild == OwnerStepPrecedesRead /\ ReadValueIsOfThisBuild

(***************************************************************************)
(* Properties of the WebGPU draw context                                   *)
(***************************************************************************)

\* isDirty(u) answers false only after a resetIsDirty(u) that no reset(), no
\* change of the vertex-pulling flag and no binding of a buffer with another
\* uniqueId has followed.
CleanOnlyAfterReset ==
    \A u \in UpdateIds :
        ~isDirty(u) => (lastResetId = <<u>> /\ sinceReset = {})

\* A setBuffer that leaves every binding as it was leaves _isDirty as it was.
RebindKeepsClean ==
    (lastOp' = "setBuffer" /\ buffers' = buffers) => dirtyFlag' = dirtyFlag

\* C28: isDirty(u) is false only if the most recent resetIsDirty was called
\* with u and no reset(), no setVertexPulling that changed the flag and no
\* setBuffer of a buffer with a different uniqueId came after it; a setBuffer
\* that binds the buffer already bound does not make the context dirty.
C28_DirtyTracksChanges == []CleanOnlyAfterReset /\ [][RebindKeepsClean]_vars

\* C28 witness: a context that is not dirty for the id of its last
\* resetIsDirty although a buffer was bound again, under the name it was
\* already bound under, after that resetIsDirty.
C28_Witness ==
    /\ lastOp = "setBuffer"
    /\ lastResetId = <<1>>
    /\ ~isDirty(1)
    /\ isDirty(2)
    /\ buffers["position"] = <<2>>

\* The raw buffers that were created and not released.
LiveRawBuffers == {b \in DOMAIN rawBuffers : rawBuffers[b].released = 0}

\* The indirect draw buffer exists only while useInstancing is set; it is the
\* only raw buffer not released, and no raw buffer was released twice; after
\* dispose() every raw buffer is released.
BuffersReleasedOnce ==
    /\ indirectDrawBuffer # Undefined => useInstancing
    /\ \A b \in DOMAIN rawBuffers : rawBuffers[b].released <= 1
    /\ LiveRawBuffers = {b \in DOMAIN rawBuffers : indirectDrawBuffer = <<b>>}
    /\ lastOp = "dispose" => LiveRawBuffers = {}

\* setIndirectData calls setRawData exactly when there is a buffer and the
\* instance count is not the one last written to it (nothing was written to a
\* buffer that was just created), and then writes that count.
WritesWhenCountDiffers ==
    lastOp' = "setIndirectData" =>
        LET call == indirectCall'[1]
        IN /\ call.written <=>
                 /\ indirectDrawBuffer # Undefined
                 /\ \/ rawBuffers[indirectDrawBuffer[1]].data = <<>>
                    \/ rawBuffers[indirectDrawBuffer[1]].data[2] # call.count
           /\ call.written => rawBuffers'[indirectDrawBuffer[1]].data[2] = call.count
           /\ ~call.written => rawBuffers' = rawBuffers

\* C29: an indirect draw buffer exists only while useInstancing is true, every
\* buffer created is released exactly once, none is left after dispose, and
\* setIndirectData writes only when a buffer exists and the instance count
\* differs from the last one written, the first call after instancing was
\* enabled always writing.
C29_IndirectBufferLifecycle == []BuffersReleasedOnce /\ [][WritesWhenCountDiffers]_vars

\* C29 witness: instancing was enabled again after a first buffer was
\* released, and the first setIndirectData on the new buffer wrote the
\* instance count that was last written to the old one.
C29_Witness ==
    /\ lastOp = "setIndirectData"
    /\ Len(rawBuffers) = 2
    /\ indirectDrawBuffer = <<2>>
    /\ indirectCall[1].written
    /\ rawBuffers[1].released = 1
    /\ rawBuffers[1].data # <<>>
    /\ rawBuffers[1].data[2] = rawBuffers[2].data[2]

\* A disposed context that had a buffer holds none and released it once.
DisposedWithBuffer ==
    /\ lastOp = "dispose"
    /\ Len(rawBuffers) >= 1
    /\ useInstancing
    /\ indirectDrawBuffer = Undefined

(***************************************************************************)
(* Properties of the inspector watcher service                             *)
(***************************************************************************)

\* The interval timers that were created and not cleared.
LiveTimers == {t \in DOMAIN timers : timers[t].live}

\* At most one timer is live, the one the service holds and the last one
\* created; one is live exactly when the mode is polling and the service was
\* not disposed.
OneTimerWhilePolling ==
    /\ Cardinality(LiveTimers) <= 1
    /\ LiveTimers # {} <=> (settings.mode = "polling" /\ ~serviceDisposed)
    /\ \A t \in LiveTimers : t = Len(timers) /\ pollingHandle = <<t>>

\* A disposed service creates no timer.
NoTimerAfterDispose == serviceDisposed => timers' = timers

\* C30: at most one polling timer is live; one is live exactly when the
\* current mode is polling and the service has not been disposed, every timer
\* created earlier has been cleared, and after dispose no setting change
\* creates a timer.
C30_OnePollingTimer == []OneTimerWhilePolling /\ [][NoTimerAfterDispose]_vars

\* C30 witness: a second timer is live after the first was cleared.
C30_Witness ==
    /\ Len(timers) >= 2
    /\ ~timers[1].live
    /\ LiveTimers = {Len(timers)}
    /\ settings.mode = "polling"

\* The store holds polling settings after the service was disposed.
PollingSetAfterDispose ==
    /\ serviceDisposed
    /\ settings.mode = "polling"
    /\ lastOp = "setting changed"
    /\ Len(timers) >= 1

====
